---- MODULE Spec2Model ----
(***************************************************************************)
(* A model of the agent pipeline of ai-agent-devops-demo:                  *)
(*   - the Model Gateway  (src/agent/claude.js, callClaude): the retry /   *)
(*     backoff loop around anthropic.messages.create;                      *)
(*   - the Knowledge Store (src/agent/knowledge.js): the chunk cache,      *)
(*     scoreChunk and findRelevantChunks.                                  *)
(* Money is counted in micro-dollars (1e-6 USD) and time in milliseconds,  *)
(* so that every quantity of the code is an integer here.                  *)
(***************************************************************************)
EXTENDS Integers, Sequences, FiniteSets, TLC

(***************************************************************************)
(* Part 1 - the Model Gateway                                              *)
(***************************************************************************)

\* claude.js:25
MAX_RETRIES == 3
\* claude.js:24, the default of ANTHROPIC_TIMEOUT_MS
TIMEOUT_MS == 30000
\* claude.js:19-20, COST_PER_TOKEN in micro-dollars per token
COST_PER_TOKEN_input == 3
COST_PER_TOKEN_output == 15
\* claude.js:128, the base and the cap of the backoff
BACKOFF_BASE_MS == 1000
BACKOFF_CAP_MS == 10000

\* The callClaude calls of the model. Every call has its own locals
\* (startTime, lastError, attempt), so the state is a function of the call.
Calls == {"c1", "c2"}

\* The statuses the backend answers a failed attempt with.
Statuses == {400, 401, 408, 429, 500, 503, 529}
\* usage.input_tokens / usage.output_tokens of a successful response.
TokenCounts == {0, 250, 1000000}
\* How long an attempt that gets an answer may take, in ms.
AttemptMs == {1, 40}
\* How late after its delay a setTimeout callback may run, in ms.
TimerLagMs == {0, 2}
\* What Date.now() reads when a call enters callClaude, in ms.
EntryMs == {0, 500}

Min(a, b) == IF a <= b THEN a ELSE b

RECURSIVE Pow2(_)
Pow2(n) == IF n <= 0 THEN 1 ELSE 2 * Pow2(n - 1)

\* No error, the initial value of lastError.
NoError == [kind |-> "none", hasStatus |-> FALSE, status |-> 0, at |-> 0]

\* The error object the SDK rejects attempt number `at` with. An APIError
\* carries the HTTP status; a connection timeout and a TypeError raised while
\* reading a malformed response carry none (error.status is undefined).
ApiError(s, at) == [kind |-> "api", hasStatus |-> TRUE, status |-> s, at |-> at]
TimeoutError(at) == [kind |-> "timeout", hasStatus |-> FALSE, status |-> 0, at |-> at]
TypeError(at) == [kind |-> "type", hasStatus |-> FALSE, status |-> 0, at |-> at]

\* A classification that also retries the client errors (>= 400).
isRetryableError_ClientErrorsToo(error) ==
    error.hasStatus /\ error.status >= 400

\* claude.js:54-58
isRetryableError(error) ==
    LET retryableStatuses == {429, 529}
        isServerError == error.hasStatus /\ error.status >= 500
    IN  (error.hasStatus /\ error.status \in retryableStatuses) \/ isServerError

\* A classification that retries an error without a status as well.
isRetryable_StatuslessToo(error) ==
    ~error.hasStatus \/ isRetryableError(error)

\* claude.js:115: error.status && isRetryableError(error), as a boolean.
\* An undefined status and the status 0 are falsy.
isRetryable(error) ==
    (error.hasStatus /\ error.status # 0) /\ isRetryableError(error)

\* A catch block that keeps the first error it saw.
CaughtError_KeepFirst(previous, error) ==
    IF previous.kind = "none" THEN error ELSE previous

\* claude.js:114: lastError is overwritten by every caught error.
CaughtError(previous, error) == error

\* A backoff that does not grow.
BackoffDelay_Constant(attempt) == BACKOFF_BASE_MS

\* A backoff whose exponent is the attempt number: 2 s, 4 s.
BackoffDelay_OffByOne(attempt) ==
    Min(BACKOFF_BASE_MS * Pow2(attempt), BACKOFF_CAP_MS)

\* claude.js:128
BackoffDelay(attempt) ==
    Min(BACKOFF_BASE_MS * Pow2(attempt - 1), BACKOFF_CAP_MS)

\* A latency measured from the beginning of the attempt that succeeded.
LatencyMs_OfAttempt(startTime, attemptBegan, now) == now - attemptBegan

\* claude.js:78, 92: the latency is measured from the entry of callClaude,
\* not from the beginning of the attempt that succeeded.
LatencyMs(startTime, attemptBegan, now) == now - startTime

\* A cost with the two rates exchanged.
CostUsd_RatesSwapped(tokens) ==
    tokens.input * COST_PER_TOKEN_output + tokens.output * COST_PER_TOKEN_input

\* claude.js:97-99
CostUsd(tokens) ==
    tokens.input * COST_PER_TOKEN_input + tokens.output * COST_PER_TOKEN_output

\* claude.js:31-41: cause and statusCode are set only for a truthy cause;
\* statusCode is cause.status || null (null is 0 here, with hasStatusCode).
\* An AgentError that drops what caused it.
AgentError_NoCause(cause) ==
    [name |-> "AgentError",
     message |-> "Claude API call failed after retries",
     cause |-> NoError,
     hasStatusCode |-> FALSE,
     statusCode |-> 0]

AgentError(cause) ==
    [name |-> "AgentError",
     message |-> "Claude API call failed after retries",
     cause |-> cause,
     hasStatusCode |-> cause.hasStatus /\ cause.status # 0,
     statusCode |-> IF cause.hasStatus THEN cause.status ELSE 0]

NoResult == [text |-> << >>, tokens |-> [input |-> 0, output |-> 0],
             cost_usd |-> 0, latency_ms |-> 0]
NoThrown == [name |-> "none", message |-> "", cause |-> NoError,
             hasStatusCode |-> FALSE, statusCode |-> 0]

VARIABLES
    pc,           \* where each call stands: idle, attempting, sleeping, returned, thrown
    attempt,      \* the loop counter of claude.js:81
    startTime,    \* claude.js:78
    lastError,    \* claude.js:79, 114
    clock,        \* what Date.now() reads for the call
    attemptBegan, \* what Date.now() read when the attempt in flight was started
    invoked,      \* how many times anthropic.messages.create was invoked for the call
    history,      \* the attempts made so far: what each was answered, when it began and ended
    sleeps,       \* the delays passed to sleep(), in order
    result,       \* the value callClaude returned
    thrown,       \* the error callClaude threw
    \* the Knowledge Store
    corpus,       \* the knowledge directory on disk: whether it exists, and its files
    chunksCache,  \* knowledge.js:20
    lastCall,     \* the last operation of the Knowledge Store and how it ended
    cacheLog,     \* what the Knowledge Store did since the last resetCache
    \* scoreChunk on its own
    scoreCase,    \* a query and two chunks to score against it
    scorePair,    \* the two scores, once scoreChunk has been applied
    \* Agent Core: ask
    askState,     \* of every ask request: where it is and its locals
    issued,       \* the number of identifiers uuidv4 has handed out
    traces,       \* the recordTrace invocations, in order
    langfuse,     \* the tracing environment and the langfuseClient of the module
    \* the HTTP layer
    httpEnv,      \* process.env as the middleware reads it
    clients,      \* who sends requests: the addresses, the keys and the questions
    store,        \* the rate limiter's store: per address, the hits of the window
    metrics,      \* routes.js:22-26
    pendingAsks,  \* the number of requests whose handler awaits ask
    lastRequest,  \* the request that arrived last and how far it got
    lastResponse, \* how ask ended last and what the handler sent then
    ledger        \* since the last resetMetrics: the requests handed to the
                  \* handler, the asks that failed, and whether no ask was
                  \* pending when the counters were reset
VARIABLES
    backend,      \* the callClaude calls that are made and what the backend
                  \* may answer them
    catchCase,    \* two errors and what the handler's catch sends for each
    proc          \* the server process from startServer to its exit

gatewayVars == <<pc, attempt, startTime, lastError, clock, attemptBegan, invoked,
                 history, sleeps, result, thrown, backend>>

knowledgeVars == <<corpus, chunksCache, lastCall, cacheLog>>

scoreVars == <<scoreCase, scorePair>>

askVars == <<askState, issued, traces, langfuse>>

httpVars == <<httpEnv, clients, store, metrics, pendingAsks, lastRequest, lastResponse,
              ledger>>

processVars == <<catchCase, proc>>

vars == <<gatewayVars, knowledgeVars, scoreVars, askVars, httpVars, processVars>>

\* What the actions of one component leave alone.
notGatewayVars == <<knowledgeVars, scoreVars, askVars, httpVars, processVars>>
notKnowledgeVars == <<gatewayVars, scoreVars, askVars, httpVars, processVars>>
notScoreVars == <<gatewayVars, knowledgeVars, askVars, httpVars, processVars>>
notHttpVars == <<gatewayVars, knowledgeVars, scoreVars, askVars, processVars>>
notProcessVars == <<gatewayVars, knowledgeVars, scoreVars, askVars, httpVars>>

\* One call, against a backend with every answer of the model.
OneCall ==
    [calls |-> {"c1"}, statuses |-> Statuses, tokenCounts |-> TokenCounts,
     attemptMs |-> AttemptMs, timerLagMs |-> TimerLagMs, entryMs |-> EntryMs]

\* Two concurrent calls, against a backend that answers at once, with a
\* client error, a rate limit, a timeout or a response that cannot be read.
TwoCalls ==
    [calls |-> Calls, statuses |-> {400, 429}, tokenCounts |-> {250},
     attemptMs |-> {1}, timerLagMs |-> {0}, entryMs |-> {0}]

\* No call has entered callClaude.
NoCallYet ==
    /\ pc = [c \in Calls |-> "idle"]
    /\ attempt = [c \in Calls |-> 0]
    /\ startTime = [c \in Calls |-> 0]
    /\ lastError = [c \in Calls |-> NoError]
    /\ clock \in {t \in [Calls -> backend.entryMs] :
                    \A c \in Calls \ backend.calls : t[c] = 0}
    /\ attemptBegan = [c \in Calls |-> 0]
    /\ invoked = [c \in Calls |-> 0]
    /\ history = [c \in Calls |-> << >>]
    /\ sleeps = [c \in Calls |-> << >>]
    /\ result = [c \in Calls |-> NoResult]
    /\ thrown = [c \in Calls |-> NoThrown]

GatewayInit ==
    /\ backend = OneCall
    /\ NoCallYet

ConcurrentInit ==
    /\ backend = TwoCalls
    /\ NoCallYet

\* claude.js:77-85: the call enters the loop and invokes the backend for the
\* first time.
CallClaudeStart(c) ==
    /\ pc[c] = "idle"
    /\ startTime' = [startTime EXCEPT ![c] = clock[c]]
    /\ attempt' = [attempt EXCEPT ![c] = 1]
    /\ attemptBegan' = [attemptBegan EXCEPT ![c] = clock[c]]
    /\ invoked' = [invoked EXCEPT ![c] = @ + 1]
    /\ pc' = [pc EXCEPT ![c] = "attempting"]
    /\ UNCHANGED <<lastError, clock, history, sleeps, result, thrown,
                   backend, notGatewayVars>>

\* claude.js:85-112: the backend answers the attempt with a well-formed
\* response after d ms; callClaude computes the result and returns. The text
\* of the response names the attempt it answers.
AttemptSucceeds(c) ==
    /\ pc[c] = "attempting"
    /\ \E d \in backend.attemptMs, i \in backend.tokenCounts,
          o \in backend.tokenCounts :
        LET now == clock[c] + d
            latency_ms == LatencyMs(startTime[c], attemptBegan[c], now)
            tokens == [input |-> i, output |-> o]
        IN  /\ clock' = [clock EXCEPT ![c] = now]
            /\ history' = [history EXCEPT ![c] =
                   Append(@, [ok |-> TRUE, error |-> NoError,
                              began |-> attemptBegan[c], ended |-> now,
                              tokens |-> tokens])]
            /\ result' = [result EXCEPT ![c] =
                   [text |-> <<"answer", attempt[c]>>, tokens |-> tokens,
                    cost_usd |-> CostUsd(tokens), latency_ms |-> latency_ms]]
    /\ pc' = [pc EXCEPT ![c] = "returned"]
    /\ UNCHANGED <<attempt, startTime, lastError, attemptBegan, invoked, sleeps, thrown,
                   backend, notGatewayVars>>

\* A loop that takes no attempt for the last.
IsLastAttempt_Never(n) == FALSE

\* attempt === MAX_RETRIES, claude.js:124
IsLastAttempt(n) == n = MAX_RETRIES

\* claude.js:113-139: the catch block, then either the backoff or the throw
\* after the loop. `error` is what the attempt raised after d ms.
Catch(c, error, d) ==
    LET now == clock[c] + d
        caught == CaughtError(lastError[c], error)
        retry == isRetryable(error) /\ ~IsLastAttempt(attempt[c])
        delay == BackoffDelay(attempt[c])
    IN  /\ lastError' = [lastError EXCEPT ![c] = caught]
        /\ clock' = [clock EXCEPT ![c] = now]
        /\ history' = [history EXCEPT ![c] =
               Append(@, [ok |-> FALSE, error |-> error,
                          began |-> attemptBegan[c], ended |-> now,
                          tokens |-> [input |-> 0, output |-> 0]])]
        /\ IF retry
           THEN /\ sleeps' = [sleeps EXCEPT ![c] = Append(@, delay)]
                /\ pc' = [pc EXCEPT ![c] = "sleeping"]
                /\ UNCHANGED thrown
           ELSE /\ thrown' = [thrown EXCEPT ![c] = AgentError(caught)]
                /\ pc' = [pc EXCEPT ![c] = "thrown"]
                /\ UNCHANGED sleeps
        /\ UNCHANGED <<attempt, startTime, attemptBegan, invoked, result,
                   backend, notGatewayVars>>

\* The backend rejects the attempt with an HTTP status.
AttemptFailsWithStatus(c) ==
    /\ pc[c] = "attempting"
    /\ \E s \in backend.statuses, d \in backend.attemptMs :
          Catch(c, ApiError(s, attempt[c]), d)

\* The attempt gets no answer within TIMEOUT_MS (claude.js:64-66): the SDK
\* rejects with a connection timeout, which carries no status.
AttemptTimesOut(c) ==
    /\ pc[c] = "attempting"
    /\ Catch(c, TimeoutError(attempt[c]), TIMEOUT_MS)

\* The backend answers with a response callClaude cannot read (an empty
\* content list): claude.js:107 raises a TypeError inside the try block.
AttemptMalformed(c) ==
    /\ pc[c] = "attempting"
    /\ \E d \in backend.attemptMs : Catch(c, TypeError(attempt[c]), d)

\* claude.js:130, 81: the sleep ends, the loop counter is incremented and
\* the backend is invoked again.
BackoffEnds(c) ==
    /\ pc[c] = "sleeping"
    /\ \E lag \in backend.timerLagMs :
        LET now == clock[c] + sleeps[c][Len(sleeps[c])] + lag
        IN  /\ clock' = [clock EXCEPT ![c] = now]
            /\ attemptBegan' = [attemptBegan EXCEPT ![c] = now]
    /\ attempt' = [attempt EXCEPT ![c] = @ + 1]
    /\ invoked' = [invoked EXCEPT ![c] = @ + 1]
    /\ pc' = [pc EXCEPT ![c] = "attempting"]
    /\ UNCHANGED <<startTime, lastError, history, sleeps, result, thrown,
                   backend, notGatewayVars>>

GatewayNext ==
    \E c \in backend.calls :
        \/ CallClaudeStart(c)
        \/ AttemptSucceeds(c)
        \/ AttemptFailsWithStatus(c)
        \/ AttemptTimesOut(c)
        \/ AttemptMalformed(c)
        \/ BackoffEnds(c)

(***************************************************************************)
(* Part 2 - the Knowledge Store                                            *)
(*                                                                         *)
(* A string is a sequence of characters, each a one-character string.      *)
(* The characters of the model are the lower-case letters a b i n o r t,   *)
(* the upper-case letters A B, the digit 1, the space, the line feed and   *)
(* the signs # - . ? ( and the dot of a file name's extension.             *)
(***************************************************************************)

Letters ==
    <<"a", "b", "c", "d", "e", "f", "g", "h", "i", "j", "k", "l", "m", "n",
      "o", "p", "q", "r", "s", "t", "u", "v", "w", "x", "y", "z">>
Capitals ==
    <<"A", "B", "C", "D", "E", "F", "G", "H", "I", "J", "K", "L", "M", "N",
      "O", "P", "Q", "R", "S", "T", "U", "V", "W", "X", "Y", "Z">>
Digits == {"0", "1", "2", "3", "4", "5", "6", "7", "8", "9"}

UpperCase == {Capitals[i] : i \in 1..26}
LowerAlnum == {Letters[i] : i \in 1..26} \cup Digits
WhiteSpace == {" ", "\n", "\t"}
LineTerminators == {"\n"}

LowerCaseOf == [c \in UpperCase |-> Letters[CHOOSE i \in 1..26 : Capitals[i] = c]]

\* String.prototype.toLowerCase
toLowerCase(s) ==
    [i \in 1..Len(s) |-> IF s[i] \in UpperCase THEN LowerCaseOf[s[i]] ELSE s[i]]

\* String.prototype.trim
RECURSIVE trimStart(_)
trimStart(s) ==
    IF s # << >> /\ Head(s) \in WhiteSpace THEN trimStart(Tail(s)) ELSE s

RECURSIVE trimEnd(_)
trimEnd(s) ==
    IF s # << >> /\ s[Len(s)] \in WhiteSpace
    THEN trimEnd(SubSeq(s, 1, Len(s) - 1))
    ELSE s

trim(s) == trimEnd(trimStart(s))

\* String.prototype.endsWith
endsWith(s, suffix) ==
    /\ Len(s) >= Len(suffix)
    /\ SubSeq(s, Len(s) - Len(suffix) + 1, Len(s)) = suffix

\* s.split('\n'), knowledge.js:48
RECURSIVE SplitLines(_, _, _)
SplitLines(s, i, start) ==
    IF i > Len(s) THEN <<SubSeq(s, start, Len(s))>>
    ELSE IF s[i] = "\n"
         THEN <<SubSeq(s, start, i - 1)>> \o SplitLines(s, i + 1, i + 1)
         ELSE SplitLines(s, i + 1, start)

\* lines.join('\n'), knowledge.js:50
RECURSIVE JoinLines(_)
JoinLines(lines) ==
    IF lines = << >> THEN << >>
    ELSE IF Len(lines) = 1 THEN lines[1]
    ELSE lines[1] \o <<"\n">> \o JoinLines(Tail(lines))

\* ^ under the m flag: the beginning of the input or of a line.
IsLineStart(s, i) == i = 1 \/ s[i - 1] \in LineTerminators

\* /^## /m matches at i, knowledge.js:32
IsH2At(s, i) ==
    /\ IsLineStart(s, i)
    /\ i + 2 <= Len(s)
    /\ s[i] = "#" /\ s[i + 1] = "#" /\ s[i + 2] = " "

\* content.split(/^## /m), knowledge.js:32
RECURSIVE SplitH2(_, _, _)
SplitH2(s, i, start) ==
    IF i > Len(s) THEN <<SubSeq(s, start, Len(s))>>
    ELSE IF IsH2At(s, i)
         THEN <<SubSeq(s, start, i - 1)>> \o SplitH2(s, i + 3, i + 3)
         ELSE SplitH2(s, i + 1, start)

\* The index of the last character of the line that holds position i.
RECURSIVE LineEnd(_, _)
LineEnd(s, i) ==
    IF i + 1 <= Len(s) /\ s[i + 1] \notin LineTerminators
    THEN LineEnd(s, i + 1)
    ELSE i

\* /^# (.+)/m matches at i, knowledge.js:37
IsH1At(s, i) ==
    /\ IsLineStart(s, i)
    /\ i + 2 <= Len(s)
    /\ s[i] = "#" /\ s[i + 1] = " " /\ s[i + 2] \notin LineTerminators

\* knowledge.js:37-38: the text of the first top-level heading of the intro,
\* or the file's base name when it has none.
IntroTitle(intro, filename) ==
    LET at == {i \in 1..Len(intro) : IsH1At(intro, i)}
    IN  IF at = {} THEN filename
        ELSE LET i == CHOOSE j \in at : \A k \in at : j <= k
             IN  SubSeq(intro, i + 2, LineEnd(intro, i + 2))

\* title.toLowerCase().replace(/[^a-z0-9]+/g, '-'), knowledge.js:54
RECURSIVE ReplaceRuns(_, _)
ReplaceRuns(s, i) ==
    IF i > Len(s) THEN << >>
    ELSE IF s[i] \in LowerAlnum THEN <<s[i]>> \o ReplaceRuns(s, i + 1)
    ELSE IF i > 1 /\ s[i - 1] \notin LowerAlnum THEN ReplaceRuns(s, i + 1)
    ELSE <<"-">> \o ReplaceRuns(s, i + 1)

Slug(title) == ReplaceRuns(toLowerCase(title), 1)

\* A test that keeps the sections without a body too.
HasBody_Always(body) == TRUE

\* knowledge.js:52: if (body), on the trimmed body of a section.
HasBody(body) == body # << >>

\* knowledge.js:36: if (intro), on the trimmed lead text of a document.
HasIntro(intro) == intro # << >>

\* knowledge.js:47-62: the chunks of the sections that follow the intro.
RECURSIVE SectionChunks(_, _)
SectionChunks(sections, filename) ==
    IF sections = << >> THEN << >>
    ELSE LET lines == SplitLines(Head(sections), 1, 1)
             title == trim(Head(lines))
             body == trim(JoinLines(Tail(lines)))
             chunk == [id |-> filename \o <<"#">> \o Slug(title),
                       title |-> title,
                       content |-> <<"#", "#", " ">> \o title \o <<"\n", "\n">> \o body,
                       source |-> filename]
         IN  (IF HasBody(body) THEN <<chunk>> ELSE << >>)
                 \o SectionChunks(Tail(sections), filename)

\* knowledge.js:30-65
parseMarkdownChunks(content, filename) ==
    LET sections == SplitH2(content, 1, 1)
        intro == trim(Head(sections))
        introChunk == [id |-> filename \o <<"#", "i", "n", "t", "r", "o">>,
                       title |-> IntroTitle(intro, filename),
                       content |-> intro,
                       source |-> filename]
    IN  (IF HasIntro(intro) THEN <<introChunk>> ELSE << >>)
            \o SectionChunks(Tail(sections), filename)

DotMd == <<".", "m", "d">>

\* path.basename(file, '.md'), knowledge.js:88
Basename(file) ==
    IF endsWith(file, DotMd) /\ Len(file) > Len(DotMd)
    THEN SubSeq(file, 1, Len(file) - Len(DotMd))
    ELSE file

\* knowledge.js:82-93: the chunks of the .md files, in directory order.
RECURSIVE ChunksOfFiles(_)
ChunksOfFiles(files) ==
    IF files = << >> THEN << >>
    ELSE (IF endsWith(Head(files).name, DotMd)
          THEN parseMarkdownChunks(Head(files).content, Basename(Head(files).name))
          ELSE << >>)
             \o ChunksOfFiles(Tail(files))

\* chunksCache = null, knowledge.js:20, 155
NullCache == [isNull |-> TRUE, chunks |-> << >>]

\* A check that takes every directory to be there.
existsSync_Always(dir) == TRUE

\* fs.existsSync(KNOWLEDGE_DIR), knowledge.js:76
existsSync(dir) == dir.exists

\* A cache test that takes an empty array for no cache.
IsCached_NonEmpty(cache) == ~cache.isNull /\ cache.chunks # << >>

\* knowledge.js:74: if (chunksCache). An empty array is truthy: an empty
\* cache is served as it is.
IsCached(cache) == ~cache.isNull

\* A load that caches the chunks of the first file before it reads the next.
loadKnowledge_FirstFileOnly(cache, dir) ==
    IF IsCached(cache) THEN cache
    ELSE IF ~existsSync(dir) THEN [isNull |-> FALSE, chunks |-> << >>]
    ELSE [isNull |-> FALSE, chunks |-> ChunksOfFiles(SubSeq(dir.files, 1, 1))]

\* knowledge.js:73-102: the cache after loadKnowledge, which is also the value
\* it returns.
loadKnowledge(cache, dir) ==
    IF IsCached(cache) THEN cache
    ELSE IF ~existsSync(dir) THEN [isNull |-> FALSE, chunks |-> << >>]
    ELSE [isNull |-> FALSE, chunks |-> ChunksOfFiles(dir.files)]

\* The directory itself, as a path the file system may refuse.
DirItself == <<".">>

\* The paths the file system refuses to read; a corpus that names none has
\* none.
Denied(dir) == IF "denied" \in DOMAIN dir THEN dir.denied ELSE {}

\* fs.readdirSync(KNOWLEDGE_DIR) throws, knowledge.js:82: the directory is
\* not there (ENOENT, which the test of line 76 rules out) or may not be
\* listed.
readdirSyncThrows(dir) == ~dir.exists \/ DirItself \in Denied(dir)

\* fs.readFileSync(filePath, 'utf-8') throws for one of the .md files,
\* knowledge.js:86-87
readFileSyncThrows(dir) ==
    \E i \in 1..Len(dir.files) :
        /\ endsWith(dir.files[i].name, DotMd)
        /\ dir.files[i].name \in Denied(dir)

\* A load that takes what it cannot read for nothing to read.
loadKnowledgeThrows_Never(cache, dir) == FALSE

\* knowledge.js:82-87: the exceptions of readdirSync and readFileSync leave
\* loadKnowledge; neither call is inside a try.
loadKnowledgeThrows(cache, dir) ==
    /\ ~IsCached(cache)
    /\ existsSync(dir)
    /\ readdirSyncThrows(dir) \/ readFileSyncThrows(dir)

\* A reset that leaves the cache in place.
resetCache_KeepsCache(cache) == cache

\* knowledge.js:154-156: the cache after resetCache.
resetCache(cache) == NullCache

\* query.toLowerCase().split(/\s+/), knowledge.js:113
RECURSIVE SplitWhiteSpace(_, _, _)
SplitWhiteSpace(s, i, start) ==
    IF i > Len(s) THEN <<SubSeq(s, start, Len(s))>>
    ELSE IF s[i] \in WhiteSpace
         THEN IF i + 1 <= Len(s) /\ s[i + 1] \in WhiteSpace
              THEN SplitWhiteSpace(SubSeq(s, 1, i - 1) \o SubSeq(s, i + 1, Len(s)), i, start)
              ELSE <<SubSeq(s, start, i - 1)>> \o SplitWhiteSpace(s, i + 1, i + 1)
         ELSE SplitWhiteSpace(s, i + 1, start)

\* A filter that keeps the terms longer than three characters.
QueryTerms_LongerThanThree(query) ==
    SelectSeq(SplitWhiteSpace(toLowerCase(query), 1, 1), LAMBDA t : Len(t) > 3)

\* knowledge.js:113
QueryTerms(query) ==
    SelectSeq(SplitWhiteSpace(toLowerCase(query), 1, 1), LAMBDA t : Len(t) > 2)

(***************************************************************************)
(* new RegExp(term, 'g'), for the characters of the model: a letter, a     *)
(* digit, # and - match themselves; . matches any character but a line     *)
(* terminator; ? makes the atom before it optional (greedy) and ?? makes   *)
(* it optional and lazy; a ? with nothing to repeat and an unterminated (  *)
(* are syntax errors, which the constructor throws.                        *)
(***************************************************************************)
RegExpIsValid(term) ==
    /\ \A i \in 1..Len(term) : term[i] # "("
    /\ term # << >> => term[1] # "?"
    /\ \A i \in 3..Len(term) :
          ~(term[i] = "?" /\ term[i - 1] = "?" /\ term[i - 2] = "?")

\* The atoms of a valid pattern, each with its quantifier.
RECURSIVE RegExpAtoms(_, _)
RegExpAtoms(term, i) ==
    IF i > Len(term) THEN << >>
    ELSE LET q1 == i + 1 <= Len(term) /\ term[i + 1] = "?"
             q2 == q1 /\ i + 2 <= Len(term) /\ term[i + 2] = "?"
         IN  IF q2 THEN <<[ch |-> term[i], quant |-> "lazy"]>> \o RegExpAtoms(term, i + 3)
             ELSE IF q1 THEN <<[ch |-> term[i], quant |-> "opt"]>> \o RegExpAtoms(term, i + 2)
             ELSE <<[ch |-> term[i], quant |-> "one"]>> \o RegExpAtoms(term, i + 1)

AtomMatches(atom, ch) ==
    IF atom.ch = "." THEN ch \notin LineTerminators ELSE atom.ch = ch

\* Where the match of atoms[k..] that begins at text[i] ends (the index after
\* its last character), by the backtracking order of the engine; 0 if there
\* is none.
RECURSIVE MatchEnd(_, _, _, _)
MatchEnd(atoms, k, text, i) ==
    IF k > Len(atoms) THEN i
    ELSE LET take == IF i <= Len(text) /\ AtomMatches(atoms[k], text[i])
                     THEN MatchEnd(atoms, k + 1, text, i + 1)
                     ELSE 0
         IN  CASE atoms[k].quant = "one" -> take
               [] atoms[k].quant = "opt" ->
                    IF take # 0 THEN take ELSE MatchEnd(atoms, k + 1, text, i)
               [] OTHER ->
                    LET skip == MatchEnd(atoms, k + 1, text, i)
                    IN  IF skip # 0 THEN skip ELSE take

\* The number of matches a global search finds from lastIndex i on: the
\* search resumes where a match ended, one further after an empty match.
RECURSIVE CountMatches(_, _, _)
CountMatches(atoms, text, i) ==
    IF i > Len(text) + 1 THEN 0
    ELSE LET e == MatchEnd(atoms, 1, text, i)
         IN  IF e = 0 THEN CountMatches(atoms, text, i + 1)
             ELSE 1 + CountMatches(atoms, text, IF e = i THEN i + 1 ELSE e)

\* (text.match(new RegExp(term, 'g')) || []).length, knowledge.js:119-120
MatchCount(term, text) ==
    IF RegExpIsValid(term) THEN CountMatches(RegExpAtoms(term, 1), text, 1) ELSE 0

\* knowledge.js:118-121: the weight of a match in the title.
TITLE_WEIGHT == 3

\* A scoring that takes the title matches off the score.
TermScore_TitlePenalised(term, chunk) ==
    LET chunkText == toLowerCase(chunk.title \o <<" ">> \o chunk.content)
        titleMatches == MatchCount(term, toLowerCase(chunk.title))
        bodyMatches == MatchCount(term, chunkText)
    IN  bodyMatches - titleMatches * TITLE_WEIGHT

\* knowledge.js:119-121: what one term adds to the score.
TermScore(term, chunk) ==
    LET chunkText == toLowerCase(chunk.title \o <<" ">> \o chunk.content)
        titleMatches == MatchCount(term, toLowerCase(chunk.title))
        bodyMatches == MatchCount(term, chunkText)
    IN  titleMatches * TITLE_WEIGHT + bodyMatches

RECURSIVE SumTermScores(_, _)
SumTermScores(terms, chunk) ==
    IF terms = << >> THEN 0
    ELSE TermScore(Head(terms), chunk) + SumTermScores(Tail(terms), chunk)

\* knowledge.js:112-125, for a query all of whose terms are valid patterns.
scoreChunk(query, chunk) == SumTermScores(QueryTerms(query), chunk)

\* knowledge.js:119: scoreChunk throws a SyntaxError when a term of the query
\* is not a valid pattern.
scoreChunkThrows(query) ==
    \E k \in 1..Len(QueryTerms(query)) : ~RegExpIsValid(QueryTerms(query)[k])

\* knowledge.js:138
WithScore(query, chunk) ==
    [id |-> chunk.id, title |-> chunk.title, content |-> chunk.content,
     source |-> chunk.source, score |-> scoreChunk(query, chunk)]

\* knowledge.js:139
KeepScored(chunk) == chunk.score > 0

\* The comparator a.score - b.score, which sorts by ascending score.
ComesBefore_Ascending(a, b) == a.score <= b.score

\* knowledge.js:140: Array.prototype.sort is stable, and the comparator
\* b.score - a.score puts a before b when a.score >= b.score.
ComesBefore(a, b) == a.score >= b.score

RECURSIVE InsertSorted(_, _)
InsertSorted(sorted, x) ==
    IF sorted = << >> THEN <<x>>
    ELSE IF ComesBefore(Head(sorted), x)
         THEN <<Head(sorted)>> \o InsertSorted(Tail(sorted), x)
         ELSE <<x>> \o sorted

RECURSIVE SortByScore(_)
SortByScore(chunks) ==
    IF chunks = << >> THEN << >>
    ELSE InsertSorted(SortByScore(SubSeq(chunks, 1, Len(chunks) - 1)),
                      chunks[Len(chunks)])

\* knowledge.js:141, for topK >= 0
Slice(chunks, topK) == SubSeq(chunks, 1, Min(topK, Len(chunks)))

\* knowledge.js:137-141
RankChunks(query, topK, chunks) ==
    Slice(SortByScore(SelectSeq([i \in 1..Len(chunks) |-> WithScore(query, chunks[i])],
                                KeepScored)),
          topK)

(***************************************************************************)
(* The inputs of the Knowledge Store                                       *)
(***************************************************************************)

\* The most sections a document of the model has, and the largest topK.
MaxSections == 2
MaxTopK == 3

\* The pieces the documents of the model are written from: an intro with a
\* top-level heading, and sections as <<heading line, body>>. The body of
\* the last one is blank.
IntroText == <<"#", " ", "B", "a", "\n", "b", "a", "b", "\n">>
SectionKinds ==
    { << <<"A", "b", "a">>, <<"a", "b", "a", " ", "a", "b">> >>,
      << <<"b", " ", "b">>, <<"a", "b", "a", " ", "a", "b">> >>,
      << <<"b", " ", "b">>, <<"b", "a", "b", " ", "b">> >>,
      << <<"A", "b", "a">>, <<" ">> >> }

SectionLists(n) == UNION {[1..k -> SectionKinds] : k \in 0..n}

\* The text of a document: each section as a heading line and a body.
RECURSIVE SectionsText(_)
SectionsText(list) ==
    IF list = << >> THEN << >>
    ELSE <<"#", "#", " ">> \o Head(list)[1] \o <<"\n">> \o Head(list)[2] \o <<"\n">>
            \o SectionsText(Tail(list))

Documents ==
    {SectionsText(list) : list \in SectionLists(MaxSections)}
    \cup {IntroText \o SectionsText(list) : list \in SectionLists(1)}

FirstDocuments ==
    {SectionsText(list) : list \in SectionLists(1)}
    \cup {IntroText \o SectionsText(list) : list \in SectionLists(1)}

SecondDocuments ==
    { <<"#", "#", " ", "A", "b", "a", "\n", "b", "a", "b", "a", "\n">>,
      <<"b", "a", "\n", "#", "#", " ", "a", "-", "b", "\n", "b", "\n">> }

FileA == <<"a", ".", "m", "d">>
FileB == <<"b", ".", "m", "d">>
FileNotes == <<"n", ".", "t", "x", "t">>

\* The states of the knowledge directory: missing, or holding one .md file,
\* or two .md files and a file that is not markdown.
Corpora ==
    {[exists |-> FALSE, files |-> << >>]}
    \cup {[exists |-> TRUE, files |-> <<[name |-> FileA, content |-> d]>>] : d \in Documents}
    \cup {[exists |-> TRUE,
           files |-> <<[name |-> FileA, content |-> d],
                       [name |-> FileB, content |-> e],
                       [name |-> FileNotes, content |-> d]>>] :
            d \in FirstDocuments, e \in SecondDocuments}

\* The queries of the model.
Queries ==
    { << >>,
      <<"a", "b", " ", "a", "b", "a">>,
      <<" ", "A", "B", "A", "\t", " ", "b", "a", "b", " ">>,
      <<"b", "b", "b">>,
      <<".", ".", ".">>,
      <<"b", "a", "b", "?">>,
      <<"?", "a", "b">>,
      <<"a", "b", "a", " ", "(", "a", "b">> }

TopKs == 0..MaxTopK

NoCall == [op |-> "none", query |-> << >>, topK |-> 0,
           outcome |-> "none", value |-> << >>]

\* What a run that watches the file system knows since the last resetCache:
\* reads counts the times loadKnowledge consulted the directory, hit tells
\* that the last loadKnowledge call (those of findRelevantChunks too) was
\* served from the cache, and dropped is the cache the last resetCache
\* discarded. A run that does not watch keeps NoLog.
NoLog == [watching |-> FALSE, reads |-> 0, hit |-> FALSE, dropped |-> NullCache]

Watching == [NoLog EXCEPT !.watching = TRUE]

\* The log after a loadKnowledge call that found cache.
Logged(log, cache) ==
    IF ~log.watching THEN log
    ELSE [log EXCEPT !.reads = @ + (IF IsCached(cache) THEN 0 ELSE 1),
                     !.hit = IsCached(cache)]

\* The log after a resetCache that found cache.
Dropped(log, cache) ==
    IF ~log.watching THEN log
    ELSE [Watching EXCEPT !.dropped = cache]

KnowledgeInit ==
    /\ corpus \in Corpora
    /\ chunksCache = NullCache
    /\ lastCall = NoCall
    /\ cacheLog = NoLog

\* knowledge.js:73-102
LoadKnowledge ==
    LET throws == loadKnowledgeThrows(chunksCache, corpus)
        loaded == IF throws THEN chunksCache ELSE loadKnowledge(chunksCache, corpus)
    IN  /\ chunksCache' = loaded
        /\ lastCall' = [op |-> "loadKnowledge", query |-> << >>, topK |-> 0,
                        outcome |-> IF throws THEN "threw" ELSE "returned",
                        value |-> loaded.chunks]
        /\ cacheLog' = Logged(cacheLog, chunksCache)
        /\ UNCHANGED <<corpus, notKnowledgeVars>>

\* knowledge.js:154-156
ResetCache ==
    /\ chunksCache' = resetCache(chunksCache)
    /\ lastCall' = [op |-> "resetCache", query |-> << >>, topK |-> 0,
                    outcome |-> "returned", value |-> << >>]
    /\ cacheLog' = Dropped(cacheLog, chunksCache)
    /\ UNCHANGED <<corpus, notKnowledgeVars>>

\* A ranking that writes the score into the cached chunks.
CacheAfterFind_ScoredInPlace(query, loaded) ==
    [isNull |-> loaded.isNull,
     chunks |-> [i \in 1..Len(loaded.chunks) |-> WithScore(query, loaded.chunks[i])]]

\* knowledge.js:137-141: map, filter and slice return new arrays, sort sorts
\* the array filter returned, and the spread of line 138 makes a new object
\* of every chunk: the cached array and its chunks are not written.
CacheAfterFind(query, loaded) == loaded

\* knowledge.js:134-149: the load, then the ranking; a SyntaxError raised while
\* scoring a chunk leaves the call after the cache has been filled.
\* What findRelevantChunks(query, topK) does to the Knowledge Store.
FindEffect(query, topK) ==
    LET loadThrows == loadKnowledgeThrows(chunksCache, corpus)
        loaded == IF loadThrows THEN chunksCache
                  ELSE loadKnowledge(chunksCache, corpus)
        throws == loadThrows \/ (loaded.chunks # << >> /\ scoreChunkThrows(query))
    IN  /\ chunksCache' = CacheAfterFind(query, loaded)
        /\ lastCall' = [op |-> "findRelevantChunks", query |-> query, topK |-> topK,
                        outcome |-> IF throws THEN "threw" ELSE "returned",
                        value |-> IF throws THEN << >>
                                  ELSE RankChunks(query, topK, loaded.chunks)]
        /\ cacheLog' = Logged(cacheLog, chunksCache)

Find(query, topK) ==
    /\ FindEffect(query, topK)
    /\ UNCHANGED <<corpus, notKnowledgeVars>>

FindRelevantChunks == \E query \in Queries, topK \in TopKs : Find(query, topK)

KnowledgeNext ==
    \/ LoadKnowledge
    \/ ResetCache
    \/ FindRelevantChunks

\* The directories of the runs in which the directory changes: missing;
\* empty; one file; two files and a file that is not markdown.
CacheCorpora ==
    { [exists |-> FALSE, files |-> << >>],
      [exists |-> TRUE, files |-> << >>],
      [exists |-> TRUE,
       files |-> <<[name |-> FileA,
                    content |-> <<"#", "#", " ", "b", " ", "b", "\n", "b", "a", "b", " ", "b", "\n">>]>>],
      [exists |-> TRUE,
       files |-> <<[name |-> FileA, content |-> IntroText],
                   [name |-> FileB,
                    content |-> <<"#", "#", " ", "A", "b", "a", "\n", "b", "a", "b", "a", "\n">>],
                   [name |-> FileNotes, content |-> IntroText]>>] }

CacheInit ==
    /\ corpus \in CacheCorpora
    /\ chunksCache = NullCache
    /\ lastCall = NoCall
    /\ cacheLog = Watching

\* The files of the knowledge directory are written, or the directory is
\* removed, by something other than the Knowledge Store.
WriteCorpus ==
    /\ corpus' \in CacheCorpora \ {corpus}
    /\ UNCHANGED <<chunksCache, lastCall, cacheLog, notKnowledgeVars>>

\* A directory of two .md files and a file that is not markdown, and what
\* of it the file system refuses to read.
FaultCorpora ==
    { [exists |-> TRUE,
       files |-> <<[name |-> FileA, content |-> IntroText],
                   [name |-> FileB,
                    content |-> <<"#", "#", " ", "A", "b", "a", "\n", "b", "a", "b", "a", "\n">>],
                   [name |-> FileNotes, content |-> IntroText]>>,
       denied |-> denied] : denied \in SUBSET {DirItself, FileA, FileB, FileNotes} }
    \cup { [exists |-> FALSE, files |-> << >>, denied |-> {DirItself}] }

FaultInit ==
    /\ corpus \in FaultCorpora
    /\ chunksCache = NullCache
    /\ lastCall = NoCall
    /\ cacheLog = NoLog

\* The file system starts or stops refusing a path, or the directory is
\* removed or put back.
ChangeAccess ==
    /\ corpus' \in FaultCorpora \ {corpus}
    /\ UNCHANGED <<chunksCache, lastCall, cacheLog, notKnowledgeVars>>

FaultNext ==
    \/ LoadKnowledge
    \/ ResetCache
    \/ FindRelevantChunks
    \/ ChangeAccess

CacheNext ==
    \/ LoadKnowledge
    \/ ResetCache
    \/ FindRelevantChunks
    \/ WriteCorpus

(***************************************************************************)
(* The question about authentication, asked of a directory of two          *)
(* documents, one of which has a section headed Authentication whose body  *)
(* has the word Bearer.                                                    *)
(***************************************************************************)

\* The question.
\*     How do I authenticate with the API?
AuthQuery ==
    <<"H", "o", "w", " ", "d", "o", " ", "I", " ", "a", "u", "t", "h", "e",
      "n", "t", "i", "c", "a", "t", "e", " ", "w", "i", "t", "h", " ", "t",
      "h", "e", " ", "A", "P", "I", "?">>

\* The heading line of the section.
\*     ## Authentication
AuthHeading ==
    <<"#", "#", " ", "A", "u", "t", "h", "e", "n", "t", "i", "c", "a", "t",
      "i", "o", "n", "\n">>

\* The bodies of the section.
AuthBodies ==
    {
      <<"S", "e", "n", "d", " ", "a", " ", "B", "e", "a", "r", "e", "r", " ",
        "t", "o", "k", "e", "n", ".", "\n">>,
      <<"A", "u", "t", "h", "o", "r", "i", "z", "a", "t", "i", "o", "n", ":", " ",
        "B", "e", "a", "r", "e", "r", " ", "k", "e", "y", "\n", "A", "P",
        "I", " ", "k", "e", "y", "s", " ", "o", "n", "l", "y", ".", "\n">> }

\* What the document has before the section and after it.
AuthLeads ==
    { << >>,
      <<"#", " ", "G", "u", "i", "d", "e", "\n", "I", "n", "t", "r", "o", ".",
        "\n">> }

AuthTrails ==
    { << >>,
      <<"#", "#", " ", "U", "s", "e", "r", "s", "\n", "L", "i", "s", "t", " ",
        "u", "s", "e", "r", "s", ".", "\n">> }

AuthDocuments ==
    {lead \o AuthHeading \o body \o trail :
        lead \in AuthLeads, body \in AuthBodies, trail \in AuthTrails}

\* The other document: one that shares no term with the question, one that
\* shares a fragment of a term, and two that share several terms.
OtherDocuments ==
    {
      <<"#", " ", "B", "i", "l", "l", "i", "n", "g", "\n", "I", "n", "v", "o",
        "i", "c", "e", "s", ".", "\n">>,
      <<"#", "#", " ", "R", "a", "t", "e", " ", "L", "i", "m", "i", "t", "s",
        "\n", "L", "i", "m", "i", "t", "s", " ", "a", "p", "p", "l", "y", ".",
        "\n">>,
      <<"#", " ", "T", "h", "e", " ", "A", "P", "I", "\n", "H", "o", "w", " ",
        "t", "h", "e", " ", "A", "P", "I", " ", "w", "o", "r", "k", "s", " ",
        "w", "i", "t", "h", " ", "t", "h", "e", " ", "k", "e", "y", "s", ".",
        "\n">>,
      <<"#", "#", " ", "A", "u", "t", "h", "e", "n", "t", "i", "c", "a", "t",
        "e", " ", "w", "i", "t", "h", " ", "t", "h", "e", " ", "A", "P", "I",
        "\n", "U", "s", "e", " ", "t", "h", "e", " ", "k", "e", "y", ".", "\n">> }

\* The two documents, in either order in the directory.
AuthCorpora ==
    {[exists |-> TRUE,
      files |-> <<[name |-> FileA, content |-> d], [name |-> FileB, content |-> e]>>] :
        d \in AuthDocuments, e \in OtherDocuments}
    \cup {[exists |-> TRUE,
           files |-> <<[name |-> FileA, content |-> e], [name |-> FileB, content |-> d]>>] :
            d \in AuthDocuments, e \in OtherDocuments}

AuthInit ==
    /\ corpus \in AuthCorpora
    /\ chunksCache = NullCache
    /\ lastCall = NoCall
    /\ cacheLog = NoLog

\* findRelevantChunks(AuthQuery, topK), knowledge.js:134-149
FindAuthentication == \E topK \in TopKs : Find(AuthQuery, topK)

AuthNext ==
    \/ LoadKnowledge
    \/ ResetCache
    \/ FindAuthentication

(***************************************************************************)
(* scoreChunk on its own: a query and two chunks that differ only in where *)
(* one term of the query stands, in the title of the first and in the body *)
(* of the second.                                                          *)
(***************************************************************************)

\* The most occurrences of the term.
MaxOccurrences == 2

ScoreTerms ==
    { <<"a", "b", "a">>,
      <<"a", ".", "a">>,
      <<".", ".", ".">>,
      <<"b", "a", "b", "?">>,
      <<"a", "?", "b", "?">>,
      <<"b", "?", "?">>,
      <<"(", "a", "b">> }

\* What else the query asks for, after the term.
ScoreQueryTails == { << >>, <<" ", "b", "a", "b">>, <<" ", "b", " ", "A", "B", "A">> }

BaseTitles == { << >>, <<"b", " ", "b">>, <<"B", "a", "b">> }
BaseBodies == { <<"b">>, <<"b", "a", " ", "b", "b">> }

ScoreCases ==
    [term : ScoreTerms, tail : ScoreQueryTails, n : 0..MaxOccurrences,
     title : BaseTitles, body : BaseBodies]

\* text followed by n copies of the word.
RECURSIVE WithWords(_, _, _)
WithWords(text, word, n) ==
    IF n = 0 THEN text ELSE WithWords(text \o <<" ">> \o word, word, n - 1)

\* The chunk parseMarkdownChunks makes of a section with this heading line
\* and this body.
ChunkOfSection(title, body) ==
    parseMarkdownChunks(<<"#", "#", " ">> \o title \o <<"\n">> \o body \o <<"\n">>,
                        <<"a">>)[1]

NoScores == [done |-> FALSE, threw |-> FALSE, first |-> 0, second |-> 0]

ScoreInit ==
    /\ scoreCase \in ScoreCases
    /\ scorePair = NoScores

\* knowledge.js:112-125, applied to both chunks of the case.
ScoreBoth ==
    /\ ~scorePair.done
    /\ LET query == scoreCase.term \o scoreCase.tail
           first == ChunkOfSection(WithWords(scoreCase.title, scoreCase.term, scoreCase.n),
                                   scoreCase.body)
           second == ChunkOfSection(scoreCase.title,
                                    WithWords(scoreCase.body, scoreCase.term, scoreCase.n))
       IN  scorePair' =
              IF scoreChunkThrows(query)
              THEN [done |-> TRUE, threw |-> TRUE, first |-> 0, second |-> 0]
              ELSE [done |-> TRUE, threw |-> FALSE,
                    first |-> scoreChunk(query, first),
                    second |-> scoreChunk(query, second)]
    /\ UNCHANGED <<scoreCase, notScoreVars>>

ScoreNext == ScoreBoth

(***************************************************************************)
(* Agent Core: ask (agent/index.js). A request runs without interruption   *)
(* from its entry to the await of callClaude, and again from the           *)
(* settlement of callClaude to its end; requests interleave at the await.  *)
(***************************************************************************)

Requests == {"r1", "r2"}

\* validateAskInput, middleware: the longest question let through.
MAX_QUESTION_LENGTH == 2000

\* findRelevantChunks(question, 3), index.js:181
ASK_TOP_K == 3

\* A validation that does not look at the length.
validateAskInput_NoLengthCheck(question) == trim(question) # << >>

\* validateAskInput: a question is let through if it is not blank and not
\* longer than 2000 characters; ask gets it trimmed.
validateAskInput(question) ==
    /\ trim(question) # << >>
    /\ Len(question) <= MAX_QUESTION_LENGTH

\* The questions put to ask: one of plain words, one that no chunk of the
\* model matches, and one with a term that is no regular expression.
AskQuestions ==
    { <<"a", "b", " ", "a", "b", "a">>,
      <<"b", "b", "b">>,
      <<"a", "b", "a", " ", "(", "a", "b">> }

\* The knowledge directory of the requests: missing, or one document with
\* one section, or two documents with five chunks, four of which match the
\* question of plain words.
AskCorpora ==
    { [exists |-> FALSE, files |-> << >>],
      [exists |-> TRUE,
       files |-> <<[name |-> FileA,
                    content |-> <<"#", "#", " ", "A", "b", "a", "\n",
                                  "a", "b", "a", " ", "a", "b", "\n">>]>>],
      [exists |-> TRUE,
       files |-> <<[name |-> FileA,
                    content |-> IntroText
                                \o <<"#", "#", " ", "b", " ", "b", "\n",
                                     "a", "b", "a", " ", "a", "b", "\n">>
                                \o <<"#", "#", " ", "A", "b", "a", "\n",
                                     "a", "b", "a", " ", "a", "b", "\n">>],
                   [name |-> FileB,
                    content |-> <<"#", "#", " ", "A", "b", "a", "\n",
                                  "b", "a", "b", "a", "\n">>
                                \o <<"#", "#", " ", "a", "\n", "a", "b", "a", "\n">>]>>] }

\* What an attempt of the gateway may fail with.
GatewayErrors == {ApiError(429, 0), ApiError(401, 0), TimeoutError(0)}

\* What the gateway resolves with.
ClaudeResult ==
    [text |-> <<"answer">>, tokens |-> [input |-> 250, output |-> 75],
     cost_usd |-> CostUsd([input |-> 250, output |-> 75]), latency_ms |-> 0]

\* The results the gateway resolves with.
ClaudeResults ==
    { ClaudeResult,
      [text |-> <<"other", "answer">>, tokens |-> [input |-> 1000, output |-> 0],
       cost_usd |-> CostUsd([input |-> 1000, output |-> 0]), latency_ms |-> 0] }

\* The SyntaxError new RegExp throws, knowledge.js:119
SyntaxError ==
    [name |-> "SyntaxError", message |-> "Invalid regular expression",
     cause |-> NoError, hasStatusCode |-> FALSE, statusCode |-> 0]

NoAgentResult ==
    [answer |-> << >>, trace_id |-> 0, latency_ms |-> 0, tokens_used |-> 0,
     cost_usd |-> 0, knowledge_chunks |-> << >>]

\* Date.now() - startTime, index.js:199, in milliseconds.
TotalLatencies == {1200}

\* The environment tracing.js reads: LANGFUSE_ENABLED at line 17 and the two
\* keys at lines 26-27; tracing switched off, switched on without keys, and
\* switched on with keys.
LangfuseEnvs ==
    { [LANGFUSE_ENABLED |-> FALSE, keys |-> TRUE],
      [LANGFUSE_ENABLED |-> TRUE, keys |-> FALSE],
      [LANGFUSE_ENABLED |-> TRUE, keys |-> TRUE] }

\* tracing.js:20
NoLangfuse(env) == [env |-> env, langfuseClient |-> "null"]

\* What fails in one call of recordTrace: nothing, the constructor of the
\* client, client.trace, trace.generation, or the call of client.flushAsync.
TraceFaults == {"none", "constructor", "trace", "generation", "flushAsync"}

\* How a flush that was started ends.
Deliveries == {"delivered", "failed"}

\* getLangfuseClient, tracing.js:22-50: the client it returns, the
\* langfuseClient it leaves behind, and whether new Langfuse threw.
getLangfuseClient(tracing, fault) ==
    IF ~tracing.env.LANGFUSE_ENABLED
    THEN [client |-> "null", langfuseClient |-> tracing.langfuseClient,
          threw |-> FALSE]
    ELSE IF tracing.langfuseClient # "null"
    THEN [client |-> tracing.langfuseClient,
          langfuseClient |-> tracing.langfuseClient, threw |-> FALSE]
    ELSE IF ~tracing.env.keys
    THEN [client |-> "null", langfuseClient |-> "null", threw |-> FALSE]
    ELSE IF fault = "constructor"
    THEN [client |-> "null", langfuseClient |-> "null", threw |-> TRUE]
    ELSE [client |-> "client", langfuseClient |-> "client", threw |-> FALSE]

\* A flush that has ended when flushAsync returns.
flushAsync_Awaited(delivery) == delivery

\* client.flushAsync(), tracing.js:120: a promise that is pending when the
\* call returns and is settled in a later turn of the event loop.
flushAsync(delivery) == "pending"

\* recordTrace, tracing.js:70-129, an async function without an await: it
\* runs to its end within the call. The promise it returns, the records it
\* built (the trace, then the generation), the flush it started and what it
\* logged; line 82 is outside the try block of lines 85-128.
recordTrace(params, tracing, fault, delivery) ==
    LET got == getLangfuseClient(tracing, fault)
    IN  IF got.threw
        THEN [params |-> params, promise |-> "rejected", records |-> 0,
              flush |-> "none", logged |-> "nothing"]
        ELSE IF got.client = "null"
        THEN [params |-> params, promise |-> "fulfilled", records |-> 0,
              flush |-> "none", logged |-> "nothing"]
        ELSE IF fault = "trace"
        THEN [params |-> params, promise |-> "fulfilled", records |-> 0,
              flush |-> "none", logged |-> "LangFuse recording failed"]
        ELSE IF fault = "generation"
        THEN [params |-> params, promise |-> "fulfilled", records |-> 1,
              flush |-> "none", logged |-> "LangFuse recording failed"]
        ELSE IF fault = "flushAsync"
        THEN [params |-> params, promise |-> "fulfilled", records |-> 2,
              flush |-> "none", logged |-> "LangFuse recording failed"]
        ELSE [params |-> params, promise |-> "fulfilled", records |-> 2,
              flush |-> flushAsync(delivery), logged |-> "LangFuse trace recorded"]

\* An ask that awaits recordTrace.
AfterRecordTrace_Awaited(promise) ==
    IF promise = "rejected" THEN "throw" ELSE "return"

\* index.js:202-213: the promise of recordTrace is dropped, ask goes on to
\* its return whatever the promise holds.
AfterRecordTrace(promise) == "return"

\* What ask throws when a rejection of recordTrace reaches it.
TraceError ==
    [name |-> "Error", message |-> "Langfuse constructor failed",
     cause |-> NoError, hasStatusCode |-> FALSE, statusCode |-> 0]

\* A request that has not entered ask.
IdleAsk ==
    [pc |-> "idle", question |-> << >>, traceId |-> 0, chunkIds |-> << >>,
     systemPrompt |-> << >>, attempts |-> 0, correlationIds |-> << >>,
     gateway |-> "none",
     claudeResult |-> NoResult, gatewayError |-> NoThrown, events |-> << >>,
     result |-> NoAgentResult, thrown |-> NoThrown]

\* uuidv4(), index.js:175: an identifier no earlier call has returned.
uuidv4(n) == n + 1

\* contents.join(separator), index.js:155
RECURSIVE Join(_, _)
Join(contents, separator) ==
    IF contents = << >> THEN << >>
    ELSE IF Len(contents) = 1 THEN contents[1]
    ELSE contents[1] \o separator \o Join(Tail(contents), separator)

\* SYSTEM_PROMPT_TEMPLATE, index.js:151-163: the contents of the chunks, in
\* their order and joined by a rule, between the two fixed parts of the
\* text, each of which is one element here.
SYSTEM_PROMPT_TEMPLATE(contextChunks) ==
    <<"You are a helpful support agent ... DOCUMENTATION CONTEXT:\n">>
        \o Join([i \in 1..Len(contextChunks) |-> contextChunks[i].content],
                <<"\n", "\n", "-", "-", "-", "\n", "\n">>)
        \o <<"\n\nINSTRUCTIONS: ...">>

\* A list of the sources of the chunks.
ChunkIds_Sources(relevantChunks) ==
    [i \in 1..Len(relevantChunks) |-> relevantChunks[i].source]

\* relevantChunks.map((c) => c.id), index.js:182
ChunkIds(relevantChunks) ==
    [i \in 1..Len(relevantChunks) |-> relevantChunks[i].id]

\* A sum that leaves the input tokens out.
TokensUsed_OutputOnly(tokens) == tokens.output

\* claudeResult.tokens.input + claudeResult.tokens.output, index.js:230
TokensUsed(tokens) == tokens.input + tokens.output

\* A result that carries the identifier handed out last.
ReturnedTraceId_Latest(traceId, latest) == latest

\* index.js:228: trace_id is the traceId of the request itself.
ReturnedTraceId(traceId, latest) == traceId

\* A call that hands the gateway no identifier.
CorrelationId_Undefined(traceId) == 0

\* index.js:191 and claude.js:83: the third argument of callClaude is the
\* traceId of the request, and every attempt logs it.
CorrelationId(traceId) == traceId

\* A catch block that wraps what it caught.
Rethrown_Wrapped(error) == [error EXCEPT !.message = "Agent query failed"]

\* index.js:196: throw error
Rethrown(error) == error

\* A catch block that logs and goes on.
ContinuationOf_AlwaysResume(gateway) == "resume"

\* index.js:191-197: the await goes on after line 197 when callClaude
\* resolved, and into the catch block when it rejected.
ContinuationOf(gateway) == IF gateway = "resolved" THEN "resume" ELSE "catch"

AskInit ==
    /\ corpus \in AskCorpora
    /\ chunksCache = NullCache
    /\ lastCall = NoCall
    /\ cacheLog = NoLog
    /\ askState = [r \in Requests |-> IdleAsk]
    /\ issued = 0
    /\ traces = << >>
    /\ langfuse \in {NoLangfuse(env) : env \in LangfuseEnvs}

\* index.js:174-192: the identifier, the retrieval, the system prompt and
\* the call of callClaude; a SyntaxError of the retrieval leaves ask at once.
AskStart(r) ==
    /\ askState[r].pc = "idle"
    /\ \E question \in AskQuestions :
        /\ validateAskInput(question)
        /\ FindEffect(trim(question), ASK_TOP_K)
        /\ issued' = uuidv4(issued)
        /\ askState' = [askState EXCEPT ![r] =
              IF lastCall'.outcome = "threw"
              THEN [@ EXCEPT !.pc = "failed",
                             !.question = trim(question),
                             !.traceId = uuidv4(issued),
                             !.events = <<"retrieval", "throw">>,
                             !.thrown = SyntaxError]
              ELSE [@ EXCEPT !.pc = "awaiting",
                             !.question = trim(question),
                             !.traceId = uuidv4(issued),
                             !.chunkIds = ChunkIds(lastCall'.value),
                             !.systemPrompt = SYSTEM_PROMPT_TEMPLATE(lastCall'.value),
                             !.gateway = "pending",
                             !.events = <<"retrieval", "prompt", "gatewayCall">>]]
    /\ UNCHANGED <<corpus, traces, langfuse, gatewayVars, scoreVars, httpVars,
                   processVars>>

\* claude.js:77-140, as ask sees it: an attempt resolves the call, or fails;
\* a failure that is retryable and not the last is followed by another
\* attempt, any other rejects the call with an AgentError.
CallClaudeAttempt(r) ==
    /\ askState[r].pc = "awaiting"
    /\ askState[r].gateway = "pending"
    /\ \/ \E claudeResult \in ClaudeResults :
            askState' = [askState EXCEPT ![r] =
              [@ EXCEPT !.attempts = @ + 1,
                        !.gateway = "resolved",
                        !.claudeResult = claudeResult,
                        !.correlationIds = Append(@, CorrelationId(askState[r].traceId)),
                        !.events = Append(@, "attempt")]]
       \/ \E error \in GatewayErrors :
            askState' = [askState EXCEPT ![r] =
              IF isRetryable(error) /\ askState[r].attempts + 1 < MAX_RETRIES
              THEN [@ EXCEPT !.attempts = @ + 1,
                             !.correlationIds = Append(@, CorrelationId(askState[r].traceId)),
                        !.events = Append(@, "attempt")]
              ELSE [@ EXCEPT !.attempts = @ + 1,
                             !.gateway = "rejected",
                             !.gatewayError = AgentError(error),
                             !.correlationIds = Append(@, CorrelationId(askState[r].traceId)),
                        !.events = Append(@, "attempt")]]
    /\ UNCHANGED <<issued, traces, langfuse, knowledgeVars, gatewayVars, scoreVars, httpVars,
                   processVars>>

\* index.js:199-233: the latency is taken, recordTrace is invoked and not
\* awaited, then the AgentResult is returned.
AskResume(r) ==
    /\ askState[r].pc = "awaiting"
    /\ askState[r].gateway \in {"resolved", "rejected"}
    /\ ContinuationOf(askState[r].gateway) = "resume"
    /\ \E totalLatency \in TotalLatencies, fault \in TraceFaults,
          delivery \in Deliveries :
        LET a == askState[r]
            trace == recordTrace(
                [traceId |-> a.traceId, input |-> a.question,
                 output |-> a.claudeResult.text, tokens |-> a.claudeResult.tokens,
                 cost_usd |-> a.claudeResult.cost_usd, latency_ms |-> totalLatency,
                 knowledgeChunks |-> a.chunkIds, systemPrompt |-> a.systemPrompt],
                langfuse, fault, delivery)
        IN  /\ traces' = Append(traces, trace)
            /\ langfuse' = [langfuse EXCEPT !.langfuseClient =
                                getLangfuseClient(langfuse, fault).langfuseClient]
            /\ askState' = [askState EXCEPT ![r] =
                  IF AfterRecordTrace(trace.promise) = "return"
                  THEN [@ EXCEPT !.pc = "returned",
                                 !.events = @ \o <<"trace", "return">>,
                                 !.result =
                                    [answer |-> a.claudeResult.text,
                                     trace_id |-> ReturnedTraceId(a.traceId, issued),
                                     latency_ms |-> totalLatency,
                                     tokens_used |-> TokensUsed(a.claudeResult.tokens),
                                     cost_usd |-> a.claudeResult.cost_usd,
                                     knowledge_chunks |-> a.chunkIds]]
                  ELSE [@ EXCEPT !.pc = "failed",
                                 !.events = @ \o <<"trace", "throw">>,
                                 !.thrown = TraceError]]
    /\ UNCHANGED <<issued, knowledgeVars, gatewayVars, scoreVars, httpVars,
                   processVars>>

\* tracing.js:120-122: the flush of a trace ends; a failure is caught by the
\* handler of line 120 and logged.
FlushSettles(i) ==
    /\ i \in 1..Len(traces)
    /\ traces[i].flush = "pending"
    /\ \E delivery \in Deliveries :
          traces' = [traces EXCEPT ![i] =
              [@ EXCEPT !.flush = delivery,
                        !.logged = IF delivery = "failed"
                                   THEN "LangFuse flush failed" ELSE @]]
    /\ UNCHANGED <<askState, issued, langfuse, knowledgeVars, gatewayVars, scoreVars, httpVars,
                   processVars>>

\* index.js:193-197: the catch block logs and throws what it caught.
AskCatch(r) ==
    /\ askState[r].pc = "awaiting"
    /\ askState[r].gateway \in {"resolved", "rejected"}
    /\ ContinuationOf(askState[r].gateway) = "catch"
    /\ askState' = [askState EXCEPT ![r] =
          [@ EXCEPT !.pc = "failed",
                    !.events = Append(@, "throw"),
                    !.thrown = Rethrown(askState[r].gatewayError)]]
    /\ UNCHANGED <<issued, traces, langfuse, knowledgeVars, gatewayVars, scoreVars, httpVars,
                   processVars>>

AskNext ==
    \E r \in Requests :
        \/ AskStart(r)
        \/ CallClaudeAttempt(r)
        \/ AskResume(r)
        \/ AskCatch(r)
        \/ FlushSettles(IF r = "r1" THEN 1 ELSE 2)

(***************************************************************************)
(* The HTTP layer: server/middleware.js, server/routes.js, server/index.js  *)
(***************************************************************************)

\* The addresses requests come from.
IPs == {"ip1", "ip2"}

\* The caps of the model: the requests whose handler awaits ask at a time,
\* the requests the handler takes before the counters are reset, and the
\* requests of one address the limiter turns away in one window.
MaxPending == 2
MaxHandled == 2
MaxOverLimit == 1

\* A JSON value of the body: its type, and its characters if it is a string.
Undefined == [type |-> "undefined", chars |-> << >>]
Number == [type |-> "number", chars |-> << >>]
String(chars) == [type |-> "string", chars |-> chars]

\* The bodies clients send, by name, and the value of req.body.question in
\* each: missing, a number, empty, blank, a question with white space around
\* it, and strings of 2000 and of 2001 characters.
Bodies == {"missing", "number", "empty", "blank", "padded", "long", "tooLong"}
LongQuestion == String([i \in 1..MAX_QUESTION_LENGTH |-> "a"])
TooLongQuestion == String([i \in 1..(MAX_QUESTION_LENGTH + 1) |-> "a"])
QuestionOf(body) ==
    CASE body = "missing" -> Undefined
      [] body = "number" -> Number
      [] body = "empty" -> String(<< >>)
      [] body = "blank" -> String(<<" ", "\t">>)
      [] body = "padded" -> String(<<" ", "a", "b", " ", "a", "b", "a", "\n">>)
      [] body = "long" -> LongQuestion
      [] body = "tooLong" -> TooLongQuestion

\* The values of req.headers['x-api-key']: no header, the key of the
\* deployment, another key.
XApiKeys == {"absent", "secret", "wrong"}

\* process.env: API_KEY_REQUIRED, API_KEY and RATE_LIMIT_MAX, each set or not.
HttpEnvs ==
    [API_KEY_REQUIRED : {"true", "unset"}, API_KEY : {"secret", "unset"},
     RATE_LIMIT_MAX : {"unset", "1", "2"}]

\* parseInt(s, 10), for the values of RATE_LIMIT_MAX above and the default.
parseInt(s) ==
    CASE s = "1" -> 1
      [] s = "2" -> 2
      [] s = "20" -> 20

\* middleware.js:48: max
RateLimitMax(env) ==
    parseInt(IF env.RATE_LIMIT_MAX = "unset" THEN "20" ELSE env.RATE_LIMIT_MAX)

\* A limiter that lets one request more through.
Limited_OneMore(totalHits, max) == totalHits > max + 1

\* express-rate-limit: a request is turned away when the hits of its address
\* in the window, itself included, exceed max.
Limited(totalHits, max) == totalHits > max

\* A check that accepts any key that is sent.
apiKeyMiddleware_AnyKey(env, provided) ==
    env.API_KEY_REQUIRED # "true" \/ provided # "absent"

\* apiKeyMiddleware, middleware.js:77-93: whether next() is called.
apiKeyMiddleware(env, provided) ==
    \/ env.API_KEY_REQUIRED # "true"
    \/ ~(provided = "absent" \/ env.API_KEY = "unset" \/ provided # env.API_KEY)

\* validateAskInput, middleware.js:99-117, on a JSON value: whether next()
\* is called.
validateAskInputValue(question) ==
    /\ question.type = "string"
    /\ validateAskInput(question.chars)

\* The body of an error response.
ErrorBody(code, message) == [error |-> [code |-> code, message |-> message]]
NoBody == ErrorBody("", "")

\* server/index.js:72-79 and routes.js:45: the stages of POST /api/ask in
\* the order they are mounted: the rate limiter, the key check, the
\* validation, the handler. The stage that ends the request, and the
\* response it sends; the handler sends none before ask has ended.
Pipeline(env, totalHits, provided, question) ==
    IF Limited(totalHits, RateLimitMax(env))
    THEN [stage |-> "rateLimiter", status |-> 429,
          body |-> ErrorBody("RATE_LIMITED", "Too many requests."),
          askArg |-> << >>]
    ELSE IF ~apiKeyMiddleware(env, provided)
    THEN [stage |-> "apiKeyMiddleware", status |-> 401,
          body |-> ErrorBody("UNAUTHORIZED", "Missing or invalid X-API-Key header"),
          askArg |-> << >>]
    ELSE IF ~validateAskInputValue(question)
    THEN [stage |-> "validateAskInput", status |-> 400,
          body |-> ErrorBody("INVALID_REQUEST",
                             IF question.type = "string" /\ trim(question.chars) # << >>
                             THEN "question must be 2000 characters or fewer"
                             ELSE "question is required and must be a non-empty string"),
          askArg |-> << >>]
    ELSE [stage |-> "handler", status |-> 0, body |-> NoBody,
          askArg |-> trim(question.chars)]

\* How ask ends for the handler: with an AgentResult, with an AgentError, or
\* with another error.
AskOutcomes ==
    { [kind |-> "resolved", error |-> NoThrown,
       result |-> [answer |-> <<"answer">>, trace_id |-> 1, latency_ms |-> 1200,
                   tokens_used |-> 325,
                   cost_usd |-> CostUsd([input |-> 250, output |-> 75]),
                   knowledge_chunks |-> << <<"a", "#", "a", "b", "a">> >>]],
      [kind |-> "rejected", error |-> AgentError(ApiError(429, 0)),
       result |-> NoAgentResult],
      [kind |-> "rejected", error |-> SyntaxError, result |-> NoAgentResult] }

\* A handler that sends the message of an unexpected error to the client.
HandlerResponses_SendsMessage(outcome) ==
    IF outcome.kind = "resolved"
    THEN <<[status |-> 200, body |-> outcome.result]>>
    ELSE IF outcome.error.name = "AgentError"
    THEN <<[status |-> 503,
            body |-> ErrorBody("AGENT_UNAVAILABLE", outcome.error.message)]>>
    ELSE <<[status |-> 500,
            body |-> ErrorBody("INTERNAL_ERROR", outcome.error.message)]>>

\* A test that takes every error for an AgentError.
InstanceOfAgentError_Always(error) == TRUE

\* error instanceof AgentError, routes.js:64
InstanceOfAgentError(error) == error.name = "AgentError"

\* routes.js:52-76: the responses the handler sends once ask has ended.
HandlerResponses(outcome) ==
    IF outcome.kind = "resolved"
    THEN <<[status |-> 200,
            body |-> [answer |-> outcome.result.answer,
                      trace_id |-> outcome.result.trace_id,
                      latency_ms |-> outcome.result.latency_ms,
                      tokens_used |-> outcome.result.tokens_used]]>>
    ELSE IF InstanceOfAgentError(outcome.error)
    THEN <<[status |-> 503,
            body |-> ErrorBody("AGENT_UNAVAILABLE",
                "The AI agent is temporarily unavailable. Please try again.")]>>
    ELSE <<[status |-> 500,
            body |-> ErrorBody("INTERNAL_ERROR", "An unexpected error occurred")]>>

NoMetrics == [requests_total |-> 0, errors_total |-> 0, total_latency_ms |-> 0]

NoLedger == [passed |-> 0, failed |-> 0, clean |-> TRUE]

\* A handler that counts an error whenever ask has ended.
MetricsAfterAsk_ErrorAlways(m, outcome) ==
    [m EXCEPT !.errors_total = @ + 1]

\* routes.js:53 and 62: the counters once ask has ended.
MetricsAfterAsk(m, outcome) ==
    IF outcome.kind = "resolved"
    THEN [m EXCEPT !.total_latency_ms = @ + outcome.result.latency_ms]
    ELSE [m EXCEPT !.errors_total = @ + 1]

NoRequest ==
    [ip |-> "none", key |-> "absent", question |-> "missing", hit |-> 0,
     stage |-> "none", status |-> 0, body |-> NoBody, askArg |-> << >>]

NoResponse == [outcome |-> [kind |-> "none", error |-> NoThrown,
                            result |-> NoAgentResult],
               sent |-> << >>]

\* The store of a limiter that createApp has just made: no hits; passed
\* counts the requests of the window the limiter let through.
EmptyStore == [ip \in IPs |-> [totalHits |-> 0, passed |-> 0]]

\* Every client, under a limit of one request per window.
HttpInit ==
    /\ httpEnv \in {env \in HttpEnvs : env.RATE_LIMIT_MAX = "1"}
    /\ clients = [ips |-> IPs, keys |-> XApiKeys, questions |-> Bodies]
    /\ store = EmptyStore
    /\ metrics = NoMetrics
    /\ pendingAsks = 0
    /\ lastRequest = NoRequest
    /\ lastResponse = NoResponse
    /\ ledger = NoLedger

\* Clients with the right or a wrong key and a blank or a good question,
\* under the default limit and under a limit of two, the key being required.
LimiterInit ==
    /\ httpEnv \in {env \in HttpEnvs : /\ env.RATE_LIMIT_MAX \in {"unset", "2"}
                                      /\ env.API_KEY_REQUIRED = "true"
                                      /\ env.API_KEY = "secret"}
    /\ clients = [ips |-> IPs, keys |-> {"secret", "wrong"},
                  questions |-> {"blank", "padded"}]
    /\ store = EmptyStore
    /\ metrics = NoMetrics
    /\ pendingAsks = 0
    /\ lastRequest = NoRequest
    /\ lastResponse = NoResponse
    /\ ledger = NoLedger

\* Clients with the right or a wrong key and a blank or a good question,
\* the key being required and the limit one request per window.
MetricsInit ==
    /\ httpEnv \in {env \in HttpEnvs : /\ env.RATE_LIMIT_MAX = "1"
                                      /\ env.API_KEY_REQUIRED = "true"
                                      /\ env.API_KEY = "secret"}
    /\ clients = [ips |-> IPs, keys |-> {"secret", "wrong"},
                  questions |-> {"blank", "padded"}]
    /\ store = EmptyStore
    /\ metrics = NoMetrics
    /\ pendingAsks = 0
    /\ lastRequest = NoRequest
    /\ lastResponse = NoResponse
    /\ ledger = NoLedger

\* A POST /api/ask request runs through the stages up to the await of the
\* handler, routes.js:45-52: the limiter counts it, and if no stage answers
\* it the handler counts it and invokes ask.
PostApiAsk(ip, provided, body) ==
    /\ pendingAsks < MaxPending
    /\ metrics.requests_total < MaxHandled
    /\ store[ip].totalHits < RateLimitMax(httpEnv) + MaxOverLimit
    /\ LET totalHits == store[ip].totalHits + 1
           ended == Pipeline(httpEnv, totalHits, provided, QuestionOf(body))
       IN  /\ store' = [store EXCEPT ![ip] =
                  [totalHits |-> totalHits,
                   passed |-> IF ended.stage = "rateLimiter" THEN @.passed
                              ELSE @.passed + 1]]
           /\ lastRequest' = [ip |-> ip, key |-> provided, question |-> body,
                              hit |-> totalHits, stage |-> ended.stage,
                              status |-> ended.status, body |-> ended.body,
                              askArg |-> ended.askArg]
           /\ IF ended.stage = "handler"
              THEN /\ metrics' = [metrics EXCEPT !.requests_total = @ + 1]
                   /\ pendingAsks' = pendingAsks + 1
                   /\ ledger' = [ledger EXCEPT !.passed = @ + 1]
              ELSE UNCHANGED <<metrics, pendingAsks, ledger>>
    /\ UNCHANGED <<httpEnv, clients, lastResponse, notHttpVars>>

\* routes.js:52-76: the ask of a handler ends, the handler updates the
\* counters and responds.
AskSettles ==
    /\ pendingAsks > 0
    /\ \E outcome \in AskOutcomes :
        /\ metrics' = MetricsAfterAsk(metrics, outcome)
        /\ lastResponse' = [outcome |-> outcome, sent |-> HandlerResponses(outcome)]
        /\ ledger' = IF outcome.kind = "rejected"
                     THEN [ledger EXCEPT !.failed = @ + 1] ELSE ledger
    /\ pendingAsks' = pendingAsks - 1
    /\ UNCHANGED <<httpEnv, clients, store, lastRequest, notHttpVars>>

\* express-rate-limit: the window of an address ends and its hits are
\* forgotten.
WindowElapses(ip) ==
    /\ store[ip].totalHits > 0
    /\ store' = [store EXCEPT ![ip] = [totalHits |-> 0, passed |-> 0]]
    /\ UNCHANGED <<httpEnv, clients, metrics, pendingAsks, lastRequest,
                   lastResponse, ledger, notHttpVars>>

\* resetMetrics, routes.js:29-33
ResetMetrics ==
    /\ metrics # NoMetrics
    /\ metrics' = NoMetrics
    /\ ledger' = [passed |-> 0, failed |-> 0, clean |-> pendingAsks = 0]
    /\ UNCHANGED <<httpEnv, clients, store, pendingAsks, lastRequest,
                   lastResponse, notHttpVars>>

HttpNext ==
    \/ \E ip \in clients.ips, provided \in clients.keys,
          body \in clients.questions : PostApiAsk(ip, provided, body)
    \/ AskSettles
    \/ \E ip \in IPs : WindowElapses(ip)

\* The server with its tests' reset of the counters between requests.
MetricsNext ==
    \/ HttpNext
    \/ ResetMetrics


(***************************************************************************)
(* The catch of the POST /api/ask handler, applied to two errors           *)
(***************************************************************************)

\* An error object with the stack the handler logs at routes.js:73.
WithStack(error, stack) ==
    [name |-> error.name, message |-> error.message, cause |-> error.cause,
     hasStatusCode |-> error.hasStatusCode, statusCode |-> error.statusCode,
     stack |-> stack]

Stacks == {"at callClaude (claude.js:139)", "at scoreChunk (knowledge.js:119)"}

\* What ask can reject with: the gateway's AgentError of claude.js:139 over
\* several causes, an AgentError a caller made with a message of its own, and
\* errors that are no AgentError.
CaughtErrors ==
    LET agentErrors ==
            { AgentError(cause) :
                cause \in {ApiError(429, 0), ApiError(400, 0), TimeoutError(0)} }
            \cup { [AgentError(ApiError(529, 0)) EXCEPT !.message = "overloaded"] }
    IN  { WithStack(error, stack) :
            error \in agentErrors \cup {SyntaxError, TraceError}, stack \in Stacks }

NoCatch == [first |-> NoThrown, second |-> NoThrown, sent |-> << >>]

Rejected(error) == [kind |-> "rejected", error |-> error, result |-> NoAgentResult]

CatchInit ==
    catchCase \in [first : CaughtErrors, second : CaughtErrors, sent : {<< >>}]

\* routes.js:61-77, for each of the two errors.
CatchBoth ==
    /\ catchCase.sent = << >>
    /\ catchCase' = [catchCase EXCEPT
                       !.sent = <<HandlerResponses(Rejected(catchCase.first)),
                                  HandlerResponses(Rejected(catchCase.second))>>]
    /\ UNCHANGED <<proc, notProcessVars>>

CatchNext == CatchBoth

(***************************************************************************)
(* The server process: startServer and the shutdown on a signal            *)
(***************************************************************************)

MaxConnections == 2
MaxSignals == 2
TickMs == 5000

\* setTimeout(..., 10_000), server/index.js:115-118
FORCED_SHUTDOWN_MS == 10000

Signals == {"SIGTERM", "SIGINT"}

\* No server process.
NoProc ==
    [server |-> "down", connections |-> 0, langfuseClient |-> FALSE,
     signals |-> 0, now |-> 0, timers |-> {}, callbacks |-> << >>,
     exit |-> "running", exitAt |-> 0]

MinOf(S) == CHOOSE t \in S : \A u \in S : t <= u

\* A shutdown that sets no timer.
ShutdownTimers_None(timers, now) == timers

\* server/index.js:115-118: shutdown sets a timer of ten seconds.
ShutdownTimers(timers, now) == timers \cup {now + FORCED_SHUTDOWN_MS}

\* startServer has returned, server/index.js:99-125: the server listens and
\* the handlers of SIGTERM and SIGINT are registered. The tracing client
\* exists if a request has made it (tracing.js:27-44).
ProcInit ==
    proc \in [server : {"listening"}, connections : {0}, langfuseClient : BOOLEAN,
              signals : {0}, now : {0}, timers : {{}}, callbacks : {<< >>},
              exit : {"running"}, exitAt : {0}]

\* A client opens a connection to the listening server.
Connect ==
    /\ proc.exit = "running"
    /\ proc.server = "listening"
    /\ proc.connections < MaxConnections
    /\ proc' = [proc EXCEPT !.connections = @ + 1]
    /\ UNCHANGED <<catchCase, notProcessVars>>

\* A connection ends.
Disconnect ==
    /\ proc.exit = "running"
    /\ proc.connections > 0
    /\ proc' = [proc EXCEPT !.connections = @ - 1]
    /\ UNCHANGED <<catchCase, notProcessVars>>

\* shutdown(signal), server/index.js:106-119 with the handlers of 121-122:
\* server.close stops the listening and registers its callback for the
\* 'close' event, also when the server is closing or closed already, and
\* a timer of ten seconds is set. The time is counted from the first signal.
Shutdown(signal) ==
    /\ proc.exit = "running"
    /\ proc.signals < MaxSignals
    /\ proc' = [proc EXCEPT
                  !.signals = @ + 1,
                  !.server = IF @ = "listening" THEN "closing" ELSE @,
                  !.callbacks = Append(@, "registered"),
                  !.timers = ShutdownTimers(@, proc.now)]
    /\ UNCHANGED <<catchCase, notProcessVars>>

\* The 'close' event of the server, emitted once no connection is left
\* (and again by a close() of a closed server): the callbacks of
\* server/index.js:108-112 run up to their await. shutdownTracing
\* (tracing.js:135-140) awaits shutdownAsync when there is a client and
\* completes at once when there is none, and then the callback calls
\* process.exit(0).
ServerClosed ==
    /\ proc.exit = "running"
    /\ proc.server \in {"closing", "closed"}
    /\ proc.connections = 0
    /\ \E i \in 1..Len(proc.callbacks) : proc.callbacks[i] = "registered"
    /\ LET ran == [i \in 1..Len(proc.callbacks) |->
                      IF proc.callbacks[i] # "registered" THEN proc.callbacks[i]
                      ELSE IF proc.langfuseClient THEN "flushing" ELSE "completed"]
       IN  proc' = [proc EXCEPT
                      !.server = "closed",
                      !.callbacks = ran,
                      !.exit = IF proc.langfuseClient THEN @ ELSE "0",
                      !.exitAt = IF proc.langfuseClient THEN @ ELSE proc.now]
    /\ UNCHANGED <<catchCase, notProcessVars>>

\* langfuseClient.shutdownAsync() settles for one callback: fulfilled, the
\* callback goes on to process.exit(0) (server/index.js:110-111); rejected,
\* the rejection leaves the callback unhandled and Node 20 (Dockerfile:17)
\* ends the process with code 1.
ShutdownAsyncSettles(i) ==
    /\ proc.exit = "running"
    /\ proc.callbacks[i] = "flushing"
    /\ \E settled \in {"fulfilled", "rejected"} :
          proc' = [proc EXCEPT
                     !.callbacks[i] = IF settled = "fulfilled" THEN "completed"
                                      ELSE "rejected",
                     !.exit = IF settled = "fulfilled" THEN "0" ELSE "1",
                     !.exitAt = proc.now]
    /\ UNCHANGED <<catchCase, notProcessVars>>

\* The timer of server/index.js:115-118 fires.
ForcedShutdown ==
    /\ proc.exit = "running"
    /\ \E t \in proc.timers : t <= proc.now
    /\ proc' = [proc EXCEPT !.exit = "1", !.exitAt = proc.now]
    /\ UNCHANGED <<catchCase, notProcessVars>>

\* Time passes, up to the next timer that is due.
Tick ==
    /\ proc.exit = "running"
    /\ proc.timers # {}
    /\ proc.now < MinOf(proc.timers)
    /\ proc' = [proc EXCEPT !.now = Min(@ + TickMs, MinOf(proc.timers))]
    /\ UNCHANGED <<catchCase, notProcessVars>>

ShutdownNext ==
    \/ Connect
    \/ Disconnect
    \/ \E signal \in Signals : Shutdown(signal)
    \/ ServerClosed
    \/ \E i \in 1..MaxSignals : i <= Len(proc.callbacks) /\ ShutdownAsyncSettles(i)
    \/ ForcedShutdown
    \/ Tick

(***************************************************************************)
(* The specifications: each component runs while the others are at rest.   *)
(***************************************************************************)

KnowledgeAtRest ==
    /\ corpus = [exists |-> FALSE, files |-> << >>]
    /\ chunksCache = NullCache
    /\ lastCall = NoCall
    /\ cacheLog = NoLog

GatewayAtRest ==
    /\ GatewayInit
    /\ clock = [c \in Calls |-> 0]

ScoreAtRest ==
    /\ scoreCase = [term |-> << >>, tail |-> << >>, n |-> 0,
                    title |-> << >>, body |-> << >>]
    /\ scorePair = NoScores

AskAtRest ==
    /\ askState = [r \in Requests |-> IdleAsk]
    /\ issued = 0
    /\ traces = << >>
    /\ langfuse = NoLangfuse([LANGFUSE_ENABLED |-> FALSE, keys |-> FALSE])

HttpAtRest ==
    /\ httpEnv = [API_KEY_REQUIRED |-> "unset", API_KEY |-> "unset",
                  RATE_LIMIT_MAX |-> "unset"]
    /\ clients = [ips |-> {}, keys |-> {}, questions |-> {}]
    /\ store = EmptyStore
    /\ metrics = NoMetrics
    /\ pendingAsks = 0
    /\ lastRequest = NoRequest
    /\ lastResponse = NoResponse
    /\ ledger = NoLedger

ProcessAtRest ==
    /\ catchCase = NoCatch
    /\ proc = NoProc

GatewaySpecInit ==
    GatewayInit /\ KnowledgeAtRest /\ ScoreAtRest /\ AskAtRest /\ HttpAtRest /\ ProcessAtRest

GatewaySpec == GatewaySpecInit /\ [][GatewayNext]_vars

KnowledgeSpecInit ==
    GatewayAtRest /\ KnowledgeInit /\ ScoreAtRest /\ AskAtRest /\ HttpAtRest /\ ProcessAtRest

KnowledgeSpec == KnowledgeSpecInit /\ [][KnowledgeNext]_vars

CacheSpecInit ==
    GatewayAtRest /\ CacheInit /\ ScoreAtRest /\ AskAtRest /\ HttpAtRest /\ ProcessAtRest

CacheSpec == CacheSpecInit /\ [][CacheNext]_vars

FaultSpecInit ==
    GatewayAtRest /\ FaultInit /\ ScoreAtRest /\ AskAtRest /\ HttpAtRest /\ ProcessAtRest

FaultSpec == FaultSpecInit /\ [][FaultNext]_vars

AuthSpecInit ==
    GatewayAtRest /\ AuthInit /\ ScoreAtRest /\ AskAtRest /\ HttpAtRest /\ ProcessAtRest

AuthSpec == AuthSpecInit /\ [][AuthNext]_vars

AskSpecInit == GatewayAtRest /\ AskInit /\ ScoreAtRest /\ HttpAtRest /\ ProcessAtRest

AskSpec == AskSpecInit /\ [][AskNext]_vars

ConcurrentSpecInit ==
    /\ ConcurrentInit /\ KnowledgeAtRest /\ ScoreAtRest /\ AskAtRest /\ HttpAtRest
    /\ ProcessAtRest

ConcurrentSpec == ConcurrentSpecInit /\ [][GatewayNext]_vars

ScoreSpecInit ==
    GatewayAtRest /\ KnowledgeAtRest /\ ScoreInit /\ AskAtRest /\ HttpAtRest /\ ProcessAtRest

ScoreSpec == ScoreSpecInit /\ [][ScoreNext]_vars

HttpSpecInit ==
    GatewayAtRest /\ KnowledgeAtRest /\ ScoreAtRest /\ AskAtRest /\ HttpInit /\ ProcessAtRest

HttpSpec == HttpSpecInit /\ [][HttpNext]_vars

LimiterSpecInit ==
    GatewayAtRest /\ KnowledgeAtRest /\ ScoreAtRest /\ AskAtRest /\ LimiterInit /\ ProcessAtRest

LimiterSpec == LimiterSpecInit /\ [][HttpNext]_vars

MetricsSpecInit ==
    GatewayAtRest /\ KnowledgeAtRest /\ ScoreAtRest /\ AskAtRest /\ MetricsInit /\ ProcessAtRest

MetricsSpec == MetricsSpecInit /\ [][MetricsNext]_vars

CatchSpecInit ==
    /\ GatewayAtRest /\ KnowledgeAtRest /\ ScoreAtRest /\ AskAtRest /\ HttpAtRest
    /\ CatchInit /\ proc = NoProc

CatchSpec == CatchSpecInit /\ [][CatchNext]_vars

ShutdownSpecInit ==
    /\ GatewayAtRest /\ KnowledgeAtRest /\ ScoreAtRest /\ AskAtRest /\ HttpAtRest
    /\ catchCase = NoCatch /\ ProcInit

ShutdownSpec == ShutdownSpecInit /\ [][ShutdownNext]_vars

\* The event loop of Node lets the time pass and runs a timer that is due.
ShutdownLiveSpec ==
    ShutdownSpec /\ WF_vars(Tick) /\ WF_vars(ForcedShutdown)

(***************************************************************************)
(* Properties of the Model Gateway, checked under GatewaySpec              *)
(***************************************************************************)

\* Attempt k of call c was made and failed with a status the specification
\* calls retryable: 429, 529 or any status >= 500.
FailedRetryably(c, k) ==
    /\ k \in 1..Len(history[c])
    /\ ~history[c][k].ok
    /\ history[c][k].error.kind = "api"
    /\ \/ history[c][k].error.status \in {429, 529}
       \/ history[c][k].error.status >= 500

\* Attempt k of call c was made and failed with a status that is neither
\* 429 nor 529 nor >= 500.
FailedPermanently(c, k) ==
    /\ k \in 1..Len(history[c])
    /\ ~history[c][k].ok
    /\ history[c][k].error.kind = "api"
    /\ history[c][k].error.status \notin {429, 529}
    /\ history[c][k].error.status < 500

LastAttempt(c) == history[c][Len(history[c])]

RECURSIVE SumSeq(_)
SumSeq(q) == IF q = << >> THEN 0 ELSE Head(q) + SumSeq(Tail(q))

\* The time call c has spent inside its attempts so far.
RECURSIVE TimeInAttempts(_, _)
TimeInAttempts(c, k) ==
    IF k = 0 THEN 0
    ELSE (history[c][k].ended - history[c][k].began) + TimeInAttempts(c, k - 1)

\* C1: when the backend fails the first two attempts with a retryable status
\* and answers the third, the call is not given up after the second failure,
\* it returns the third attempt's result, the backend has been invoked
\* exactly 3 times, and the wait before the third attempt is strictly longer
\* than the wait before the second.
C1_RetriesThenSucceeds ==
    \A c \in Calls :
        /\ (Len(history[c]) = 2 /\ FailedRetryably(c, 1) /\ FailedRetryably(c, 2))
              => pc[c] \in {"sleeping", "attempting"}
        /\ (Len(history[c]) = 3 /\ FailedRetryably(c, 1) /\ FailedRetryably(c, 2)
                /\ history[c][3].ok)
              => /\ pc[c] = "returned"
                 /\ result[c].text = <<"answer", 3>>
                 /\ result[c].tokens = history[c][3].tokens
                 /\ invoked[c] = 3
                 /\ Len(sleeps[c]) = 2
                 /\ sleeps[c][2] > sleeps[c][1]
                 /\ history[c][2].began - history[c][1].ended >= sleeps[c][1]
                 /\ history[c][3].began - history[c][2].ended >= sleeps[c][2]

C1_Witness ==
    \E c \in Calls :
        /\ pc[c] = "returned"
        /\ Len(history[c]) = 3
        /\ FailedRetryably(c, 1)
        /\ FailedRetryably(c, 2)
        /\ history[c][3].ok

\* C2: when the first attempt fails with a status that is not retryable, the
\* backend is invoked exactly once, no backoff wait happens, and the call
\* fails with an AgentError whose cause is that very error.
C2_PermanentErrorFailsAtOnce ==
    \A c \in Calls :
        FailedPermanently(c, 1)
            => /\ invoked[c] = 1
               /\ Len(history[c]) = 1
               /\ sleeps[c] = << >>
               /\ pc[c] = "thrown"
               /\ thrown[c].name = "AgentError"
               /\ thrown[c].cause = history[c][1].error

C2_Witness ==
    \E c \in Calls :
        /\ FailedPermanently(c, 1)
        /\ history[c][1].error.status = 401
        /\ pc[c] = "thrown"

\* C3, as the specification states it: an attempt that ends in a timeout
\* while attempts remain is followed by a backoff wait and another attempt;
\* the call does not fail on it.
C3_TimeoutIsRetried ==
    \A c \in Calls :
        \A k \in 1..Len(history[c]) :
            (history[c][k].error.kind = "timeout" /\ k < MAX_RETRIES)
                => /\ Len(sleeps[c]) >= k
                   /\ ~(pc[c] = "thrown" /\ Len(history[c]) = k)

\* C3, amended: an attempt that ends in a timeout (an error that carries no
\* status) ends the call: no backoff wait follows it, no further attempt is
\* made, and the call fails with an AgentError whose cause is the timeout.
C3_TimeoutEndsTheCall ==
    \A c \in Calls :
        \A k \in 1..Len(history[c]) :
            history[c][k].error.kind = "timeout"
                => /\ k = Len(history[c])
                   /\ pc[c] = "thrown"
                   /\ thrown[c].name = "AgentError"
                   /\ thrown[c].cause = history[c][k].error
                   /\ Len(sleeps[c]) = k - 1
                   /\ invoked[c] = k

C3_Witness ==
    \E c \in Calls :
        /\ Len(history[c]) = 1
        /\ history[c][1].error.kind = "timeout"
        /\ attempt[c] < MAX_RETRIES
        /\ pc[c] = "thrown"

\* C4: when all 3 attempts fail with a retryable status, the call fails with
\* an AgentError whose cause is the error of the third attempt and whose
\* statusCode is that error's status.
C4_ExhaustedKeepsLastError ==
    \A c \in Calls :
        (FailedRetryably(c, 1) /\ FailedRetryably(c, 2) /\ FailedRetryably(c, 3))
            => /\ pc[c] = "thrown"
               /\ Len(history[c]) = 3
               /\ invoked[c] = 3
               /\ thrown[c].name = "AgentError"
               /\ thrown[c].cause = history[c][3].error
               /\ thrown[c].cause.at = 3
               /\ thrown[c].hasStatusCode
               /\ thrown[c].statusCode = history[c][3].error.status

C4_Witness ==
    \E c \in Calls :
        /\ FailedRetryably(c, 1) /\ FailedRetryably(c, 2) /\ FailedRetryably(c, 3)
        /\ history[c][1].error.status = 429
        /\ history[c][2].error.status = 500
        /\ history[c][3].error.status = 529
        /\ pc[c] = "thrown"

\* C5: the k-th wait of a call is min(1000 * 2^(k-1), 10000) ms and follows
\* the k-th attempt, which failed with a retryable status while attempts
\* remained; every such failure is followed by a wait, the next attempt
\* begins no sooner than the wait allows, and no wait follows the failure
\* (or the success) that ends the call.
C5_BackoffSchedule ==
    \A c \in Calls :
        /\ \A k \in 1..Len(sleeps[c]) :
              /\ sleeps[c][k] = Min(1000 * 2^(k - 1), 10000)
              /\ FailedRetryably(c, k)
              /\ k < 3
        /\ Len(sleeps[c]) >= 1 => sleeps[c][1] = 1000
        /\ Len(sleeps[c]) >= 2 => sleeps[c][2] = 2000
        /\ Len(sleeps[c]) =
              Cardinality({k \in 1..Len(history[c]) : FailedRetryably(c, k) /\ k < 3})
        /\ \A k \in 1..(Len(history[c]) - 1) :
              history[c][k + 1].began - history[c][k].ended >= sleeps[c][k]
        /\ pc[c] \in {"thrown", "returned"} => Len(sleeps[c]) = Len(history[c]) - 1

C5_Witness ==
    \E c \in Calls :
        /\ pc[c] = "thrown"
        /\ Len(history[c]) = 3
        /\ sleeps[c] = <<1000, 2000>>

\* C6, as the specification states it: the latency of a returned result is
\* the duration of the attempt that succeeded, and nothing more.
C6_LatencyOfSuccessfulAttemptOnly ==
    \A c \in Calls :
        pc[c] = "returned"
            => result[c].latency_ms = LastAttempt(c).ended - LastAttempt(c).began

\* C6, amended: the latency of a returned result is the time from the entry
\* of callClaude to the successful response; it contains the failed
\* attempts of the call and the backoff waits between them.
C6_LatencySinceEntry ==
    \A c \in Calls :
        pc[c] = "returned"
            => /\ result[c].latency_ms = LastAttempt(c).ended - startTime[c]
               /\ history[c][1].began = startTime[c]
               /\ result[c].latency_ms
                     >= TimeInAttempts(c, Len(history[c])) + SumSeq(sleeps[c])

C6_Witness ==
    \E c \in Calls :
        /\ pc[c] = "returned"
        /\ Len(history[c]) = 3
        /\ startTime[c] > 0
        /\ result[c].latency_ms > 3000

\* C7: the cost of a returned result is 3 micro-dollars per input token plus
\* 15 micro-dollars per output token of the response that was returned, hence
\* 18 dollars for a million tokens of each.
C7_CostIsLinear ==
    \A c \in Calls :
        pc[c] = "returned"
            => /\ result[c].tokens = LastAttempt(c).tokens
               /\ result[c].cost_usd
                     = 3 * result[c].tokens.input + 15 * result[c].tokens.output
               /\ (result[c].tokens.input = 1000000 /\ result[c].tokens.output = 1000000)
                     => result[c].cost_usd = 18 * 1000000

C7_Witness ==
    \E c \in Calls :
        /\ pc[c] = "returned"
        /\ result[c].tokens = [input |-> 1000000, output |-> 1000000]
        /\ result[c].cost_usd = 18000000


(***************************************************************************)
(* Properties of the Knowledge Store, checked under KnowledgeSpec          *)
(***************************************************************************)

\* The last operation was a findRelevantChunks that returned.
Found == lastCall.op = "findRelevantChunks" /\ lastCall.outcome = "returned"

\* The score of the m-th cached chunk for the query of the last call.
ScoreOf(m) == scoreChunk(lastCall.query, chunksCache.chunks[m])

\* The cached chunks that score above 0 for the query of the last call.
Relevant == {m \in 1..Len(chunksCache.chunks) : ScoreOf(m) > 0}

\* The place of the m-th cached chunk in the ranking: one more than the
\* number of relevant chunks that score higher, or the same and were loaded
\* earlier.
RankOf(m) ==
    1 + Cardinality({j \in Relevant :
                        \/ ScoreOf(j) > ScoreOf(m)
                        \/ (ScoreOf(j) = ScoreOf(m) /\ j < m)})

\* C8: a findRelevantChunks(q, k) that returns, returns the first k chunks of
\* the ranking by descending score with ties in load order: every result
\* scores above 0, the scores do not increase, there are at most k results,
\* and every relevant chunk left out ranks after all those returned.
C8_TopKOfRanking ==
    Found =>
        LET v == lastCall.value
            k == lastCall.topK
        IN  /\ Len(v) = Min(k, Cardinality(Relevant))
            /\ Len(v) <= k
            /\ \A i \in 1..Len(v) : v[i].score > 0
            /\ \A i \in 1..Len(v) : \A j \in i..Len(v) : v[i].score >= v[j].score
            /\ \A m \in Relevant :
                  IF RankOf(m) <= k
                  THEN /\ v[RankOf(m)].score = ScoreOf(m)
                       /\ v[RankOf(m)].id = chunksCache.chunks[m].id
                       /\ v[RankOf(m)].title = chunksCache.chunks[m].title
                       /\ v[RankOf(m)].content = chunksCache.chunks[m].content
                       /\ v[RankOf(m)].source = chunksCache.chunks[m].source
                  ELSE \A i \in 1..Len(v) : v[i].score >= ScoreOf(m)

\* A call that had to cut a ranking in which two chunks tie and a third
\* scores less and was loaded first.
C8_Witness ==
    /\ Found
    /\ lastCall.topK = 2
    /\ Len(lastCall.value) = 2
    /\ Cardinality(Relevant) > 2
    /\ lastCall.value[1].score = lastCall.value[2].score
    /\ lastCall.value[1].id # lastCall.value[2].id
    /\ ScoreOf(1) < lastCall.value[2].score
    /\ ScoreOf(1) > 0

\* s holds the word w.
Occurs(w, s) ==
    \E i \in 1..(Len(s) - Len(w) + 1) : SubSeq(s, i, i + Len(w) - 1) = w

\* No term of the query of the last call occurs in the title or the content
\* of a cached chunk, whatever the case of the letters.
NoSharedVocabulary ==
    \A t \in 1..Len(QueryTerms(lastCall.query)) :
        \A m \in 1..Len(chunksCache.chunks) :
            /\ ~Occurs(QueryTerms(lastCall.query)[t],
                       toLowerCase(chunksCache.chunks[m].title))
            /\ ~Occurs(QueryTerms(lastCall.query)[t],
                       toLowerCase(chunksCache.chunks[m].content))

\* C9: a findRelevantChunks that returns for a query none of whose terms
\* occurs in a chunk's title or content returns the empty sequence.
C9_NoVocabularyNoChunks ==
    (Found /\ NoSharedVocabulary) => lastCall.value = << >>

\* C13: whenever the cache is loaded, no two of its chunks have the same id.
C13_IdsAreDistinct ==
    ~chunksCache.isNull =>
        \A i \in 1..Len(chunksCache.chunks) : \A j \in 1..Len(chunksCache.chunks) :
            i # j => chunksCache.chunks[i].id # chunksCache.chunks[j].id

\* The heading and the blank line a section chunk's content starts with.
SectionHead(chunk) == <<"#", "#", " ">> \o chunk.title \o <<"\n", "\n">>

\* C14: whenever the cache is loaded, every chunk has content that is not
\* blank, and a chunk made of a section has a body that is not blank after
\* its heading: no chunk comes from blank lead text or from a blank body.
C14_ContentIsNotEmpty ==
    ~chunksCache.isNull =>
        \A i \in 1..Len(chunksCache.chunks) :
            LET chunk == chunksCache.chunks[i]
                head == SectionHead(chunk)
            IN  /\ trim(chunk.content) # << >>
                /\ (/\ Len(chunk.content) >= Len(head)
                    /\ SubSeq(chunk.content, 1, Len(head)) = head) =>
                        trim(SubSeq(chunk.content, Len(head) + 1, Len(chunk.content))) # << >>

\* The cache of a directory whose one document has no lead text, a section
\* with a body and a section with a blank body: one chunk.
C14_Witness ==
    /\ ~chunksCache.isNull
    /\ corpus.exists
    /\ Len(corpus.files) = 1
    /\ corpus.files[1].content =
          <<"#", "#", " ", "b", " ", "b", "\n", "b", "a", "b", " ", "b", "\n",
            "#", "#", " ", "A", "b", "a", "\n", " ", "\n">>
    /\ Len(chunksCache.chunks) = 1
    /\ chunksCache.chunks[1].title = <<"b", " ", "b">>

(***************************************************************************)
(* Properties of scoreChunk, checked under ScoreSpec                       *)
(***************************************************************************)

C11_SecondLoadIsCached ==
    [][/\ cacheLog'.reads <= 1
       /\ (lastCall'.op = "loadKnowledge" /\ ~chunksCache.isNull) =>
              /\ lastCall'.outcome = "returned"
              /\ lastCall'.value = chunksCache.chunks
              /\ chunksCache' = chunksCache
              /\ cacheLog'.reads = cacheLog.reads]_vars

\* A loadKnowledge that returned the empty sequence cached before the
\* directory got its files.
C11_Witness ==
    /\ lastCall.op = "loadKnowledge"
    /\ cacheLog.hit
    /\ lastCall.value = << >>
    /\ corpus.exists
    /\ ChunksOfFiles(corpus.files) # << >>


\* C12: a loadKnowledge or findRelevantChunks call made while the directory
\* does not exist, and with no chunks cached from a time when it did, returns
\* the empty sequence and does not throw, whatever the query.
C12_MissingDirectoryIsEmpty ==
    [][(/\ lastCall' # lastCall \/ cacheLog' # cacheLog
        /\ lastCall'.op \in {"loadKnowledge", "findRelevantChunks"}
        /\ ~corpus.exists
        /\ chunksCache.chunks = << >>) =>
            /\ lastCall'.outcome = "returned"
            /\ lastCall'.value = << >>
            /\ chunksCache' = [isNull |-> FALSE, chunks |-> << >>]]_vars

\* A findRelevantChunks that consulted the directory, found none, and
\* returned for a query with a term that is no regular expression.
C12_Witness ==
    /\ lastCall.op = "findRelevantChunks"
    /\ lastCall.query = <<"a", "b", "a", " ", "(", "a", "b">>
    /\ lastCall.outcome = "returned"
    /\ lastCall.value = << >>
    /\ ~cacheLog.hit
    /\ cacheLog.reads = 1
    /\ ~corpus.exists


\* What the directory holds: the chunks of its .md files, none when it is
\* missing.
DirChunks(dir) == IF dir.exists THEN ChunksOfFiles(dir.files) ELSE << >>

\* value without the scores findRelevantChunks adds.
WithoutScores(value) ==
    [i \in 1..Len(value) |->
        [id |-> value[i].id, title |-> value[i].title,
         content |-> value[i].content, source |-> value[i].source]]

\* C15: the first loadKnowledge or findRelevantChunks call after a resetCache
\* consults the directory and caches the chunks it holds at that moment;
\* loadKnowledge returns them, and findRelevantChunks returns none but them.
C15_LoadAfterResetReadsDirectory ==
    [][(/\ lastCall.op = "resetCache"
        /\ lastCall'.op \in {"loadKnowledge", "findRelevantChunks"}) =>
            /\ cacheLog'.reads = 1
            /\ ~cacheLog'.hit
            /\ chunksCache' = [isNull |-> FALSE, chunks |-> DirChunks(corpus)]
            /\ lastCall'.op = "loadKnowledge" =>
                  (lastCall'.outcome = "returned" /\ lastCall'.value = DirChunks(corpus))
            /\ \A i \in 1..Len(lastCall'.value) :
                  \E m \in 1..Len(DirChunks(corpus)) :
                      WithoutScores(lastCall'.value)[i] = DirChunks(corpus)[m]]_vars

\* A loadKnowledge that consulted the directory after a resetCache had
\* dropped other chunks, and returned what the directory held by then.
C15_Witness ==
    /\ lastCall.op = "loadKnowledge"
    /\ ~cacheLog.hit
    /\ cacheLog.reads = 1
    /\ ~cacheLog.dropped.isNull
    /\ cacheLog.dropped.chunks # << >>
    /\ lastCall.value # << >>
    /\ lastCall.value # cacheLog.dropped.chunks


(***************************************************************************)
(* Properties of the question about authentication, checked under AuthSpec *)
(***************************************************************************)

\* The last call asked the question about authentication for at least one
\* chunk.
AskedAuth ==
    /\ lastCall.op = "findRelevantChunks"
    /\ lastCall.query = AuthQuery
    /\ lastCall.topK >= 1

\* chunk is the chunk of a section headed Authentication.
IsAuthSection(chunk) ==
    /\ chunk.title = <<"A", "u", "t", "h", "e", "n", "t", "i", "c", "a", "t", "i", "o", "n">>
    /\ Len(chunk.content) > Len(SectionHead(chunk))
    /\ SubSeq(chunk.content, 1, Len(SectionHead(chunk))) = SectionHead(chunk)

\* The place of the Authentication section in the cache.
AuthPlace == CHOOSE m \in 1..Len(chunksCache.chunks) : IsAuthSection(chunksCache.chunks[m])

Stage(event) ==
    CASE event = "retrieval" -> 1
      [] event = "prompt" -> 2
      [] event = "gatewayCall" -> 3
      [] event = "attempt" -> 4
      [] event = "trace" -> 5
      [] event = "return" -> 6
      [] event = "throw" -> 6

\* recordTrace has been invoked for request r.
Traced(r) == \E i \in 1..Len(traces) : traces[i].params.traceId = askState[r].traceId

\* C17: the steps of every request happen in the order retrieval, prompt,
\* gateway call, the attempts of the gateway, trace, return, each but the
\* attempts once; the trace is triggered only after the gateway has resolved,
\* right after its last attempt, and a request that has returned has taken
\* every step.
C17_StepsInOrder ==
    \A r \in Requests :
        LET events == askState[r].events
        IN  /\ \A i \in 1..Len(events) : \A j \in (i + 1)..Len(events) :
                  \/ Stage(events[i]) < Stage(events[j])
                  \/ (events[i] = "attempt" /\ events[j] = "attempt")
            /\ \A i \in 1..Len(events) :
                  events[i] = "trace" =>
                      /\ askState[r].gateway = "resolved"
                      /\ i > 3
                      /\ events[i - 1] = "attempt"
                      /\ SubSeq(events, 1, 3) = <<"retrieval", "prompt", "gatewayCall">>
            /\ Traced(r) <=> (\E i \in 1..Len(events) : events[i] = "trace")
            /\ askState[r].pc = "returned" =>
                  /\ SubSeq(events, 1, 3) = <<"retrieval", "prompt", "gatewayCall">>
                  /\ SubSeq(events, Len(events) - 1, Len(events)) = <<"trace", "return">>
                  /\ askState[r].attempts >= 1
                  /\ Len(events) = 5 + askState[r].attempts

\* A request that returned after three attempts while the other was at the
\* await.
C17_Witness ==
    /\ askState["r1"].pc = "returned"
    /\ askState["r1"].attempts = 3
    /\ askState["r2"].pc = "awaiting"
    /\ askState["r2"].attempts = 1

\* C18: two requests that have returned, have returned different trace_id
\* values, however their steps interleaved.
C18_TraceIdsAreDistinct ==
    \A r \in Requests : \A q \in Requests :
        (r # q /\ askState[r].pc = "returned" /\ askState[q].pc = "returned") =>
            askState[r].result.trace_id # askState[q].result.trace_id

\* Two requests that were both at the await and have returned, the one that
\* entered last first.
C18_Witness ==
    /\ askState["r1"].pc = "returned"
    /\ askState["r2"].pc = "returned"
    /\ Len(traces) = 2
    /\ traces[1].params.traceId > traces[2].params.traceId

\* C19: a request whose gateway call was rejected fails with the AgentError
\* the gateway raised, has no AgentResult, and recordTrace has not been
\* invoked for it; until it has failed it is still at the await.
C19_GatewayFailurePropagates ==
    \A r \in Requests :
        askState[r].gateway = "rejected" =>
            /\ askState[r].pc \in {"awaiting", "failed"}
            /\ askState[r].gatewayError.name = "AgentError"
            /\ askState[r].result = NoAgentResult
            /\ ~Traced(r)
            /\ askState[r].pc = "failed" => askState[r].thrown = askState[r].gatewayError

\* A request that failed after three attempts that ran into the rate limit,
\* while the other has returned.
C19_Witness ==
    /\ askState["r1"].pc = "failed"
    /\ askState["r1"].gateway = "rejected"
    /\ askState["r1"].attempts = 3
    /\ askState["r1"].thrown = AgentError(ApiError(429, 0))
    /\ askState["r2"].pc = "returned"

\* C20: a request that has ended has either returned an AgentResult or
\* failed with an AgentError, and with nothing else.
C20_TwoTerminalStates ==
    \A r \in Requests :
        /\ askState[r].pc = "returned" =>
              (askState[r].result # NoAgentResult /\ askState[r].thrown = NoThrown)
        /\ askState[r].pc = "failed" =>
              (askState[r].result = NoAgentResult /\ askState[r].thrown.name = "AgentError")

\* The trace recordTrace made for request r.
TraceOf(r) ==
    traces[CHOOSE i \in 1..Len(traces) : traces[i].params.traceId = askState[r].traceId]

\* C21: the AgentResult of a request that has returned is built from the
\* result the gateway resolved that request's call with: answer is its
\* text, tokens_used the sum of its input and output tokens, cost_usd its
\* cost, whatever the other request did in between.
C21_ResultFromOwnGatewayResult ==
    \A r \in Requests :
        askState[r].pc = "returned" =>
            /\ askState[r].gateway = "resolved"
            /\ askState[r].claudeResult \in ClaudeResults
            /\ askState[r].result.answer = askState[r].claudeResult.text
            /\ askState[r].result.tokens_used =
                  askState[r].claudeResult.tokens.input
                  + askState[r].claudeResult.tokens.output
            /\ askState[r].result.cost_usd = askState[r].claudeResult.cost_usd

\* The first request was at the await with its gateway result when the
\* second, which entered later and got the other result, returned; then the
\* first returned.
C21_Witness ==
    /\ askState["r1"].pc = "returned"
    /\ askState["r2"].pc = "returned"
    /\ askState["r1"].traceId < askState["r2"].traceId
    /\ traces[1].params.traceId = askState["r2"].traceId
    /\ askState["r1"].result.tokens_used = 325
    /\ askState["r2"].result.tokens_used = 1000

\* The chunks that score above 0 for a question.
RelevantTo(question, chunks) ==
    {m \in 1..Len(chunks) : scoreChunk(question, chunks[m]) > 0}

\* The place of the m-th chunk in the ranking for a question: by descending
\* score, ties in load order.
PlaceFor(question, chunks, m) ==
    1 + Cardinality({j \in RelevantTo(question, chunks) :
          \/ scoreChunk(question, chunks[j]) > scoreChunk(question, chunks[m])
          \/ (/\ scoreChunk(question, chunks[j]) = scoreChunk(question, chunks[m])
              /\ j < m)})

\* C22: the step in which a request retrieves and calls the gateway sets its
\* chunk ids to the ids of the three best-ranked relevant chunks for its
\* question, best first; when no chunk is relevant there are no ids, the
\* gateway is still called, and the system prompt holds the content of no
\* chunk of the knowledge base. The ids do not change afterwards and are
\* the knowledge_chunks of the AgentResult.
C22_KnowledgeChunksAreRankedIds ==
    [][\A r \in Requests :
          /\ (askState[r].pc = "idle" /\ askState'[r].pc = "awaiting") =>
                LET question == askState'[r].question
                    ids == askState'[r].chunkIds
                    chunks == chunksCache'.chunks
                    relevant == RelevantTo(question, chunks)
                IN  /\ Len(ids) = Min(ASK_TOP_K, Cardinality(relevant))
                    /\ \A m \in relevant :
                          PlaceFor(question, chunks, m) <= ASK_TOP_K =>
                              ids[PlaceFor(question, chunks, m)] = chunks[m].id
                    /\ askState'[r].gateway = "pending"
                    /\ askState'[r].events[3] = "gatewayCall"
                    /\ relevant = {} =>
                          /\ ids = << >>
                          /\ \A m \in 1..Len(chunks) :
                                ~Occurs(chunks[m].content, askState'[r].systemPrompt)
          /\ askState[r].pc = "awaiting" =>
                /\ askState'[r].chunkIds = askState[r].chunkIds
                /\ askState'[r].pc = "returned" =>
                      askState'[r].result.knowledge_chunks = askState[r].chunkIds]_vars

\* Over a knowledge base of five chunks, one request returned the three
\* best of four relevant chunks, the other returned none and its gateway
\* call was made.
C22_Witness ==
    /\ Len(chunksCache.chunks) = 5
    /\ askState["r1"].pc = "returned"
    /\ Len(askState["r1"].result.knowledge_chunks) = 3
    /\ Cardinality(RelevantTo(askState["r1"].question, chunksCache.chunks)) = 4
    /\ askState["r2"].pc = "returned"
    /\ askState["r2"].result.knowledge_chunks = << >>
    /\ askState["r2"].attempts >= 1

\* C23: a request whose gateway call resolved and for which recordTrace was
\* invoked has returned, whatever recordTrace did, and its answer,
\* tokens_used, cost_usd and knowledge_chunks are those of its gateway
\* result and its retrieval; two requests with the same question and the
\* same gateway result return the same four fields, however their traces
\* ended.
C23_ResultIndependentOfTracing ==
    \A r \in Requests :
        (askState[r].gateway = "resolved" /\ Traced(r)) =>
            /\ askState[r].pc = "returned"
            /\ askState[r].thrown = NoThrown
            /\ askState[r].result.knowledge_chunks = askState[r].chunkIds
            /\ askState[r].result.answer = askState[r].claudeResult.text
            /\ \A q \in Requests :
                  (/\ askState[q].gateway = "resolved" /\ Traced(q)
                   /\ askState[q].question = askState[r].question
                   /\ askState[q].claudeResult = askState[r].claudeResult) =>
                      /\ askState[q].pc = "returned"
                      /\ askState[q].result.answer = askState[r].result.answer
                      /\ askState[q].result.tokens_used = askState[r].result.tokens_used
                      /\ askState[q].result.cost_usd = askState[r].result.cost_usd
                      /\ askState[q].result.knowledge_chunks
                            = askState[r].result.knowledge_chunks

\* Two requests with the same question and gateway result have returned:
\* the trace of the one failed while its generation was built, the flush of
\* the other failed.
C23_Witness ==
    /\ askState["r1"].pc = "returned"
    /\ askState["r2"].pc = "returned"
    /\ askState["r1"].question = askState["r2"].question
    /\ askState["r1"].claudeResult = askState["r2"].claudeResult
    /\ TraceOf("r1").records = 1
    /\ TraceOf("r1").logged = "LangFuse recording failed"
    /\ TraceOf("r2").flush = "failed"

\* C24: the promise of every recordTrace call is fulfilled, never rejected.
C24_RecordTraceNeverRejects ==
    \A i \in 1..Len(traces) : traces[i].promise = "fulfilled"

\* C25: a request returns while the flush its trace started is pending, and
\* a step in which a flush ends changes nothing of any request.
C25_ReturnsBeforeDelivery ==
    [][/\ \A r \in Requests :
             (/\ askState[r].pc # "returned"
              /\ askState'[r].pc = "returned"
              /\ traces'[Len(traces')].records = 2
              /\ traces'[Len(traces')].logged = "LangFuse trace recorded") =>
                  traces'[Len(traces')].flush = "pending"
        /\ \A i \in 1..Len(traces) :
             (/\ Len(traces') = Len(traces)
              /\ traces[i].flush = "pending"
              /\ traces'[i].flush # "pending") =>
                  askState' = askState]_vars

\* Both requests have returned; the flush of the first is still pending,
\* that of the second has failed.
C25_Witness ==
    /\ askState["r1"].pc = "returned"
    /\ askState["r2"].pc = "returned"
    /\ TraceOf("r1").flush = "pending"
    /\ TraceOf("r2").flush = "failed"

\* C26: the response sent when ask has resolved has status 200 and a body
\* with the six fields of the AgentResult, each with the value ask returned.
C26_SuccessBodyHasSixFields ==
    lastResponse.outcome.kind = "resolved" =>
        /\ Len(lastResponse.sent) = 1
        /\ lastResponse.sent[1].status = 200
        /\ DOMAIN lastResponse.sent[1].body =
              {"answer", "trace_id", "latency_ms", "tokens_used", "cost_usd",
               "knowledge_chunks"}
        /\ lastResponse.sent[1].body = lastResponse.outcome.result

\* C27: when ask has been rejected the handler sends one response: 503
\* AGENT_UNAVAILABLE if the error is an AgentError, and only then, 500
\* INTERNAL_ERROR otherwise; and every ask that has ended, and every request
\* a stage before the handler has ended, got one response.
C27_FailureStatus ==
    /\ lastResponse.outcome.kind # "none" => Len(lastResponse.sent) = 1
    /\ lastResponse.outcome.kind = "rejected" =>
          LET response == lastResponse.sent[1]
              error == lastResponse.outcome.error
          IN  /\ response.status \in {503, 500}
              /\ response.status = 503 <=> error.name = "AgentError"
              /\ response.status = 503 =>
                    response.body.error.code = "AGENT_UNAVAILABLE"
              /\ response.status = 500 =>
                    response.body.error.code = "INTERNAL_ERROR"
    /\ lastRequest.stage \in {"rateLimiter", "apiKeyMiddleware", "validateAskInput"} =>
          (lastRequest.status \in {429, 401, 400} /\ lastRequest.body # NoBody)
    /\ lastRequest.stage = "handler" =>
          (lastRequest.status = 0 /\ lastRequest.body = NoBody)

\* Two asks have ended with an error, the last with one that is no
\* AgentError, and its request was answered 500.
C27_Witness ==
    /\ lastResponse.outcome.error = SyntaxError
    /\ lastResponse.sent[1].status = 500
    /\ metrics.errors_total = 2
    /\ pendingAsks = 0

\* A question the validation must turn away: missing, not a string, empty
\* or blank, or longer than 2000 characters.
InvalidQuestion(question) ==
    \/ question.type # "string"
    \/ \A i \in 1..Len(question.chars) : question.chars[i] \in WhiteSpace
    \/ Len(question.chars) > 2000

BadKey(env, provided) ==
    provided = "absent" \/ env.API_KEY = "unset" \/ provided # env.API_KEY

\* C29: with API_KEY_REQUIRED 'true' a request reaches the validation and
\* the handler only with the key of the deployment, and a request without
\* it, unless the limiter has answered it before, is answered 401
\* UNAUTHORIZED; with API_KEY_REQUIRED not 'true' no request is answered 401.
C29_KeyCheck ==
    /\ httpEnv.API_KEY_REQUIRED = "true" =>
          /\ lastRequest.stage \in {"validateAskInput", "handler"} =>
                (lastRequest.key = "secret" /\ httpEnv.API_KEY = "secret")
          /\ (lastRequest.stage # "none" /\ BadKey(httpEnv, lastRequest.key)) =>
                /\ lastRequest.stage \in {"rateLimiter", "apiKeyMiddleware"}
                /\ lastRequest.askArg = << >>
                /\ lastRequest.stage # "rateLimiter" =>
                      /\ lastRequest.status = 401
                      /\ lastRequest.body.error.code = "UNAUTHORIZED"
    /\ httpEnv.API_KEY_REQUIRED # "true" =>
          /\ lastRequest.status # 401
          /\ lastRequest.stage # "apiKeyMiddleware"

\* With the key required and API_KEY unset, a request that sent a key and a
\* good question was answered 401.
C29_Witness ==
    /\ httpEnv.API_KEY_REQUIRED = "true"
    /\ httpEnv.API_KEY = "unset"
    /\ lastRequest.key = "secret"
    /\ lastRequest.question = "padded"
    /\ lastRequest.status = 401

\* C30: a request adds one to the hits of its address whatever becomes of
\* it; it is answered 429 RATE_LIMITED by the limiter, and reaches no later
\* stage, exactly when it is beyond the first RATE_LIMIT_MAX hits of its
\* address in the window, so that at most RATE_LIMIT_MAX requests of an
\* address get past the limiter in a window, those answered 401 or 400
\* among them.
C30_AtMostMaxPerWindow ==
    [][\A ip \in IPs :
          /\ store'[ip].passed <= RateLimitMax(httpEnv)
          /\ store'[ip].totalHits > store[ip].totalHits =>
                /\ store'[ip].totalHits = store[ip].totalHits + 1
                /\ lastRequest'.ip = ip
                /\ lastRequest'.hit = store'[ip].totalHits
                /\ IF lastRequest'.hit > RateLimitMax(httpEnv)
                   THEN /\ lastRequest'.status = 429
                        /\ lastRequest'.body.error.code = "RATE_LIMITED"
                        /\ lastRequest'.stage = "rateLimiter"
                        /\ store'[ip].passed = store[ip].passed
                        /\ pendingAsks' = pendingAsks
                        /\ metrics' = metrics
                   ELSE /\ lastRequest'.status \in {401, 400, 0}
                        /\ store'[ip].passed = store[ip].passed + 1]_vars

\* Under the default limit the twenty-first request of an address in a
\* window is answered 429 though none of the twenty before it reached the
\* handler, while the other address has one hit.
C30_Witness ==
    /\ httpEnv.RATE_LIMIT_MAX = "unset"
    /\ lastRequest.ip = "ip1"
    /\ lastRequest.hit = 21
    /\ lastRequest.status = 429
    /\ store["ip1"].passed = 20
    /\ store["ip2"].totalHits = 1
    /\ metrics.requests_total = 0


\* ------------------------------------------------------------------------
\* C31  Metrics counters
\* ------------------------------------------------------------------------

\* A request arrives in this step and is answered with the given status
\* before the handler.
RejectedWith(statuses) ==
    /\ \E ip \in IPs : store'[ip].totalHits = store[ip].totalHits + 1
    /\ lastRequest'.status \in statuses

\* C31 as stated: in every reachable state requests_total is the number of
\* requests handed to the handler since the last resetMetrics, errors_total
\* is the number of asks that failed since then, and errors_total is at most
\* requests_total.
C31_ErrorsWithinRequests ==
    /\ metrics.requests_total = ledger.passed
    /\ metrics.errors_total = ledger.failed
    /\ metrics.errors_total <= metrics.requests_total

\* C31, amended: when no ask was pending at the last resetMetrics, after
\* every step requests_total is the number of requests that passed the key
\* check and the validation since then, errors_total the number of those
\* whose ask failed, and errors_total is at most requests_total; a request
\* answered with 400, 401 or 429 changes no counter.
C31_CountersSinceCleanReset ==
    [][ /\ ledger'.clean =>
             /\ metrics'.requests_total = ledger'.passed
             /\ metrics'.errors_total = ledger'.failed
             /\ metrics'.errors_total <= metrics'.requests_total
        /\ RejectedWith({400, 401, 429}) => metrics' = metrics ]_vars

\* An ask has ended and the counters were reset with nothing pending; since
\* then one request was counted and is still pending, and the last request
\* was refused by the rate limiter.
C31_Witness ==
    /\ ledger.clean
    /\ lastResponse # NoResponse
    /\ ledger.passed = 1
    /\ metrics.requests_total = 1
    /\ metrics.errors_total = 0
    /\ metrics.total_latency_ms = 0
    /\ pendingAsks = 1
    /\ lastRequest.status = 429


\* ------------------------------------------------------------------------
\* C32  Failure bodies carry no detail of the error
\* ------------------------------------------------------------------------

\* C32: for any two errors that ask rejects with, the handler answers each
\* with one response of status 503 (an AgentError) or 500 (any other), and
\* when the two are of the same kind the two bodies are identical, whatever
\* the messages, causes, status codes and stacks of the errors.
C32_FailureBodyFixedPerStatus ==
    catchCase.sent # << >> =>
        LET first == catchCase.sent[1]
            second == catchCase.sent[2]
        IN  /\ Len(first) = 1 /\ Len(second) = 1
            /\ first[1].status =
                  (IF catchCase.first.name = "AgentError" THEN 503 ELSE 500)
            /\ second[1].status =
                  (IF catchCase.second.name = "AgentError" THEN 503 ELSE 500)
            /\ first[1].status = second[1].status => first[1].body = second[1].body

\* Two AgentErrors that differ in message, cause, status code and stack have
\* both been answered with 503.
C32_Witness ==
    /\ catchCase.sent # << >>
    /\ catchCase.first.name = "AgentError"
    /\ catchCase.second.name = "AgentError"
    /\ catchCase.first.message # catchCase.second.message
    /\ catchCase.first.cause # catchCase.second.cause
    /\ catchCase.first.statusCode # catchCase.second.statusCode
    /\ catchCase.first.stack # catchCase.second.stack
    /\ catchCase.sent[1][1].status = 503
    /\ catchCase.sent[2][1].status = 503


\* ------------------------------------------------------------------------
\* C33  Shutdown on a signal
\* ------------------------------------------------------------------------

\* A callback of server.close has come back from shutdownTracing.
TracingShutDown ==
    \E i \in 1..Len(proc.callbacks) : proc.callbacks[i] = "completed"

\* C33: after a SIGTERM or SIGINT the process eventually exits; it has exit
\* code 0 only when the server has closed and shutdownTracing has completed;
\* it never runs longer than ten seconds after the first signal, and when
\* server and tracing have not finished by then the exit code is 1.
C33_ShutdownIsBounded ==
    /\ [](proc.exit = "0" => proc.server = "closed" /\ TracingShutDown)
    /\ [](proc.now <= FORCED_SHUTDOWN_MS /\ proc.exitAt <= FORCED_SHUTDOWN_MS)
    /\ [](proc.exit # "running" /\ ~TracingShutDown => proc.exit = "1")
    /\ [](proc.exit = "running" /\ proc.signals > 0 =>
             \E t \in proc.timers : t <= FORCED_SHUTDOWN_MS)
    /\ (proc.signals > 0 ~> proc.exit # "running")

\* The server has closed after two signals, the flush of the traces has not
\* settled, and ten seconds after the first signal the timer has ended the
\* process with code 1.
C33_Witness ==
    /\ proc.signals = 2
    /\ proc.server = "closed"
    /\ \E i \in 1..Len(proc.callbacks) : proc.callbacks[i] = "flushing"
    /\ proc.exit = "1"
    /\ proc.exitAt = FORCED_SHUTDOWN_MS


\* ------------------------------------------------------------------------
\* C34  Attempts of concurrent calls
\* ------------------------------------------------------------------------

\* An attempt of call c has succeeded.
Succeeded(c) == \E k \in 1..Len(history[c]) : history[c][k].ok

\* C34: after every step of any interleaving of the calls, the backend has
\* been invoked at most MAX_RETRIES times for each call, every invocation of
\* a call is one of its own attempts, a call whose attempt has succeeded is
\* never invoked again, a step of one call leaves the attempt counter, the
\* invocations and the attempts of every other call alone, and a call is
\* given up only on its own last error or its own third attempt.
C34_AttemptsArePerCall ==
    [][ \A c \in Calls :
          /\ invoked'[c] <= MAX_RETRIES
          /\ attempt'[c] = invoked'[c]
          /\ invoked'[c] = Len(history'[c]) + (IF pc'[c] = "attempting" THEN 1 ELSE 0)
          /\ Succeeded(c) => invoked'[c] = invoked[c]
          /\ (pc[c] # "thrown" /\ pc'[c] = "thrown") =>
                \/ ~isRetryable(history'[c][Len(history'[c])].error)
                \/ Len(history'[c]) = MAX_RETRIES
          /\ \A d \in Calls \ {c} :
                (invoked'[c] # invoked[c] \/ history'[c] # history[c]) =>
                    /\ attempt'[d] = attempt[d]
                    /\ invoked'[d] = invoked[d]
                    /\ history'[d] = history[d]
                    /\ pc'[d] = pc[d] ]_vars

\* One call was given up after three failed attempts, and the other has
\* failed twice and succeeded with its third.
C34_Witness ==
    /\ pc["c1"] = "thrown"
    /\ invoked["c1"] = MAX_RETRIES
    /\ pc["c2"] = "returned"
    /\ invoked["c2"] = MAX_RETRIES
    /\ Len(history["c2"]) = MAX_RETRIES
    /\ history["c2"][MAX_RETRIES].ok


\* ------------------------------------------------------------------------
\* C35  A load that cannot read the corpus
\* ------------------------------------------------------------------------

\* The directory is there and listing it, or reading one of its .md files,
\* fails.
ReadFails(dir) ==
    existsSync(dir) /\ (readdirSyncThrows(dir) \/ readFileSyncThrows(dir))

\* C35: a loadKnowledge or findRelevantChunks call that finds the cache unset
\* and cannot list the directory or read one of its files throws and leaves
\* the cache unset; a call that finds the cache unset and can read everything
\* loads again and caches the complete chunk set; and the cache never
\* changes to anything but the complete chunk set of the directory.
C35_FailedLoadLeavesCacheUnset ==
    [][ (/\ lastCall' # lastCall \/ chunksCache' # chunksCache
         /\ lastCall'.op \in {"loadKnowledge", "findRelevantChunks"}) =>
          /\ (~IsCached(chunksCache) /\ ReadFails(corpus)) =>
                /\ lastCall'.outcome = "threw"
                /\ lastCall'.value = << >>
                /\ chunksCache' = NullCache
          /\ (~IsCached(chunksCache) /\ ~ReadFails(corpus)) =>
                /\ IsCached(chunksCache')
                /\ chunksCache'.chunks = ChunksOfFiles(corpus.files)
          /\ chunksCache' # chunksCache =>
                chunksCache'.chunks = ChunksOfFiles(corpus.files) ]_vars

\* The directory can be listed and its first file read, the second file
\* cannot: loadKnowledge has thrown and the cache is unset.
C35_Witness ==
    /\ lastCall.op = "loadKnowledge"
    /\ lastCall.outcome = "threw"
    /\ chunksCache = NullCache
    /\ corpus.exists
    /\ Denied(corpus) = {FileB}


\* ------------------------------------------------------------------------
\* C36  scoreChunk as a sum of occurrences
\* ------------------------------------------------------------------------

\* How often the word w stands in s from position i on, counted from left to
\* right without overlap.
RECURSIVE Occurrences(_, _, _)
Occurrences(w, s, i) ==
    IF i + Len(w) - 1 > Len(s) THEN 0
    ELSE IF SubSeq(s, i, i + Len(w) - 1) = w
         THEN 1 + Occurrences(w, s, i + Len(w))
         ELSE Occurrences(w, s, i + 1)

\* The sum of the claim: for every term of the query, three times its
\* occurrences in the title plus its occurrences in title, blank and content.
RECURSIVE OccurrenceScore(_, _)
OccurrenceScore(terms, chunk) ==
    IF terms = << >> THEN 0
    ELSE 3 * Occurrences(Head(terms), toLowerCase(chunk.title), 1)
         + Occurrences(Head(terms),
                       toLowerCase(chunk.title \o <<" ">> \o chunk.content), 1)
         + OccurrenceScore(Tail(terms), chunk)

\* C36: every findRelevantChunks call returns, scoreChunk having given every
\* chunk the sum of the occurrences of the query's terms, and the score of
\* every chunk it returns is that sum.
C36_ScoreIsOccurrenceSum ==
    lastCall.op = "findRelevantChunks" =>
        /\ lastCall.outcome = "returned"
        /\ \A m \in 1..Len(lastCall.value) :
              lastCall.value[m].score =
                  OccurrenceScore(QueryTerms(lastCall.query), lastCall.value[m])


\* ------------------------------------------------------------------------
\* C37  One trace per completed request
\* ------------------------------------------------------------------------

\* The recordTrace invocations that carry the traceId of request r.
TracesOf(r) ==
    {i \in 1..Len(traces) : traces[i].params.traceId = askState[r].traceId}

\* C37: for every request that has returned, recordTrace was invoked exactly
\* once with the traceId of the request, however many attempts the gateway
\* made; the invocation built at most one trace and one generation, and both
\* when it logged the trace as recorded; the traceId handed to
\* the recorder is the trace_id of the result and the identifier given to
\* every gateway attempt; and latency_ms, cost_usd and the chunk ids handed
\* to the recorder are those of the result.
C37_OneTracePerCompletedRequest ==
    \A r \in Requests :
        askState[r].pc = "returned" =>
            /\ Cardinality(TracesOf(r)) = 1
            /\ \A i \in TracesOf(r) :
                  LET trace == traces[i]
                      agentResult == askState[r].result
                  IN  /\ trace.records <= 2
                      /\ trace.logged = "LangFuse trace recorded" => trace.records = 2
                      /\ trace.params.traceId = agentResult.trace_id
                      /\ askState[r].attempts \in 1..MAX_RETRIES
                      /\ Len(askState[r].correlationIds) = askState[r].attempts
                      /\ \A k \in 1..Len(askState[r].correlationIds) :
                            askState[r].correlationIds[k] = trace.params.traceId
                      /\ trace.params.latency_ms = agentResult.latency_ms
                      /\ trace.params.cost_usd = agentResult.cost_usd
                      /\ trace.params.knowledgeChunks = agentResult.knowledge_chunks

\* Both requests have returned, one of them after three gateway attempts;
\* tracing is enabled and each request has its one trace with its one
\* generation.
C37_Witness ==
    /\ langfuse.env.LANGFUSE_ENABLED /\ langfuse.env.keys
    /\ \A r \in Requests : askState[r].pc = "returned"
    /\ askState["r1"].attempts = MAX_RETRIES
    /\ askState["r2"].attempts = 1
    /\ Len(traces) = 2
    /\ \A i \in 1..2 : traces[i].records = 2 /\ traces[i].logged = "LangFuse trace recorded"


\* ------------------------------------------------------------------------
\* C38  The cache under concurrent requests
\* ------------------------------------------------------------------------

\* Request r runs its retrieval in this step.
Retrieves(r) == askState[r].pc = "idle" /\ askState'[r].pc # "idle"

\* C38: in every step of any interleaving of the requests, the cache changes
\* only from unset to the complete chunk set of the directory, and a request
\* that runs its retrieval leaves a cache that is set, either the one it
\* found or that complete chunk set: no request finds or leaves a cache that
\* holds a part of the corpus.
C38_CacheIsUnsetOrComplete ==
    [][ /\ chunksCache' # chunksCache =>
             /\ chunksCache = NullCache
             /\ \E r \in Requests : Retrieves(r)
             /\ ~chunksCache'.isNull
             /\ chunksCache'.chunks = DirChunks(corpus)
        /\ \A r \in Requests :
             Retrieves(r) =>
                 /\ ~chunksCache'.isNull
                 /\ ~chunksCache.isNull => chunksCache' = chunksCache ]_vars

\* Both requests have run their retrieval and neither has ended: the first
\* of them filled the cache with the five chunks of the two documents and
\* the second found it filled.
C38_Witness ==
    /\ \A r \in Requests : askState[r].pc = "awaiting"
    /\ ~chunksCache.isNull
    /\ Len(chunksCache.chunks) = 5
    /\ Len(corpus.files) = 2


\* ------------------------------------------------------------------------
\* C39  What ends a callClaude call
\* ------------------------------------------------------------------------

\* Attempt k of call c raised an exception.
Raised(c, k) == k \in 1..Len(history[c]) /\ ~history[c][k].ok

\* C39 as stated: every attempt that raised an exception is the last of its
\* call, and the call has failed with an AgentError whose cause is that
\* exception.
C39_AnyExceptionEndsTheCall ==
    \A c \in Calls :
        \A k \in 1..Len(history[c]) :
            Raised(c, k) =>
                /\ k = Len(history[c])
                /\ pc[c] = "thrown"
                /\ thrown[c].name = "AgentError"
                /\ thrown[c].cause = history[c][k].error

\* C39, amended: a call that fails, fails with an AgentError whose cause is
\* the exception of its last attempt; an attempt that raised an exception
\* without a retryable status (no status at all, as a timeout or the
\* TypeError of a malformed response, or a status that is neither 429 nor
\* 529 nor >= 500) is the last of its call, no backoff follows it, and the
\* call has failed with that exception as the cause; an exception with a
\* retryable status before the third attempt is followed by a backoff and
\* another attempt instead.
C39_UnretryableExceptionEndsTheCall ==
    \A c \in Calls :
        /\ pc[c] \in {"idle", "attempting", "sleeping", "returned", "thrown"}
        /\ pc[c] = "thrown" =>
              /\ thrown[c].name = "AgentError"
              /\ Raised(c, Len(history[c]))
              /\ thrown[c].cause = history[c][Len(history[c])].error
        /\ pc[c] # "thrown" => thrown[c] = NoThrown
        /\ \A k \in 1..Len(history[c]) :
              Raised(c, k) =>
                 IF isRetryableError(history[c][k].error) /\ k < MAX_RETRIES
                 THEN /\ Len(sleeps[c]) >= k
                      /\ k = Len(history[c]) => pc[c] \in {"sleeping", "attempting"}
                 ELSE /\ k = Len(history[c])
                      /\ pc[c] = "thrown"
                      /\ thrown[c].cause = history[c][k].error
                      /\ Len(sleeps[c]) = k - 1
                      /\ invoked[c] = k

\* The first attempt got a response without content, reading it raised a
\* TypeError, and the call has failed after that one attempt with an
\* AgentError whose cause is the TypeError.
C39_Witness ==
    \E c \in Calls :
        /\ pc[c] = "thrown"
        /\ invoked[c] = 1
        /\ Len(history[c]) = 1
        /\ history[c][1].error.kind = "type"
        /\ thrown[c].name = "AgentError"
        /\ thrown[c].cause = TypeError(1)
        /\ ~thrown[c].hasStatusCode


\* ------------------------------------------------------------------------
\* C40  findRelevantChunks leaves the cache alone
\* ------------------------------------------------------------------------

ChunkFields == {"id", "title", "content", "source"}

\* C40: a findRelevantChunks call that finds the cache loaded leaves it as it
\* is, the same chunks in the same order with the same fields; after every
\* call no cached chunk has a score, and every chunk the call returns has
\* one and is, without it, a chunk of the cache.
C40_FindLeavesCacheUnchanged ==
    [][ (/\ lastCall'.op = "findRelevantChunks"
         /\ lastCall' # lastCall \/ chunksCache' # chunksCache) =>
          /\ IsCached(chunksCache) => chunksCache' = chunksCache
          /\ \A i \in 1..Len(chunksCache'.chunks) :
                DOMAIN chunksCache'.chunks[i] = ChunkFields
          /\ \A m \in 1..Len(lastCall'.value) :
                /\ DOMAIN lastCall'.value[m] = ChunkFields \cup {"score"}
                /\ \E i \in 1..Len(chunksCache'.chunks) :
                      WithoutScores(lastCall'.value)[m] = chunksCache'.chunks[i] ]_vars

\* A call on a loaded cache has returned two chunks, the first of which is
\* not the first chunk of the cache, and the cached chunks have no score.
C40_Witness ==
    /\ lastCall.op = "findRelevantChunks"
    /\ lastCall.outcome = "returned"
    /\ cacheLog.hit
    /\ Len(lastCall.value) >= 2
    /\ lastCall.value[1].id # chunksCache.chunks[1].id
    /\ \A i \in 1..Len(chunksCache.chunks) : "score" \notin DOMAIN chunksCache.chunks[i]

====
